---- MODULE Spec2Model ----
(***************************************************************************)
(* webflow-cms-search: the sync handlers (relational D1 store and KV       *)
(* store), the paginated upstream fetch, the search-text derivation, the   *)
(* search and data endpoints and the data cache of the client page.        *)
(*                                                                         *)
(* JavaScript runs a handler to completion between two awaits, so every    *)
(* action below is one awaited operation (an upstream HTTP exchange, a     *)
(* d1.batch, a kv.put) together with the synchronous code that follows it  *)
(* up to the next await.                                                   *)
(*                                                                         *)
(* Strings that the code transforms (toLowerCase, join) are sequences of   *)
(* one-character strings. KV entries are modelled for windows shorter than *)
(* their expirationTtl of seven days.                                      *)
(*                                                                         *)
(* Spec has the sync requests arrive one after the other, as a manual or   *)
(* scheduled trigger sends them; SpecConc lets a request arrive while      *)
(* another one is in flight, which the handlers do not prevent.            *)
(* SpecSearch has requests arrive at the search and data endpoints of a    *)
(* deployment whose store a sync has filled; the store does not change     *)
(* while a request is served, so a request is answered in one step.        *)
(* SpecClient has a page call loadData while its load is at an await.      *)
(* SpecWidget has a page with one of the two search widgets receive input  *)
(* events and form submits while time passes and its requests settle; a    *)
(* timer that has run out fires before later events are handled.           *)
(* SpecText applies buildSearchText to every small fieldData.              *)
(***************************************************************************)
EXTENDS Integers, Sequences, FiniteSets, TLC

\* ------------------------------------------------------------------ bounds

\* Sync requests started in one behaviour.
MaxSyncs == 2
\* Publications (content changes) of the upstream CMS in one behaviour.
MaxPublishes == 1
\* Injected store errors (a d1.batch or kv.put that throws) in one behaviour.
MaxStoreErrors == 1
\* Responses the edge cache of /api/data holds at a time.
MaxEdgeEntries == 1
\* Calls of loadData in one page.
MaxLoadCalls == 5

\* ------------------------------------------------------- program constants

BATCH_CHUNK_SIZE == 400
limit == 100

\* ------------------------------------------------------------------ values

Min(a, b) == IF a < b THEN a ELSE b

\* A JavaScript value: its typeof tag and its text.
Str(s) == [t |-> "string", v |-> s]
Num(s) == [t |-> "number", v |-> s]
Null == [t |-> "object", v |-> <<>>]
Undefined == [t |-> "undefined", v |-> <<>>]

ToLowerChar(c) ==
  CASE c = "R" -> "r"
    [] c = "H" -> "h"
    [] c = "B" -> "b"
    [] c = "S" -> "s"
    [] c = "A" -> "a"
    [] c = "L" -> "l"
    [] OTHER -> c

toLowerCase(s) == [i \in DOMAIN s |-> ToLowerChar(s[i])]

RECURSIVE join(_, _)
\* Array.prototype.join over an array of strings.
join(strs, sep) ==
  IF strs = <<>> THEN <<>>
  ELSE IF Len(strs) = 1 THEN strs[1]
  ELSE strs[1] \o sep \o join(Tail(strs), sep)

\* The array index a property key is, or -1: "1" is one, "name" is not.
ArrayIndex(k) ==
  CASE k = "0" -> 0
    [] k = "1" -> 1
    [] k = "2" -> 2
    [] OTHER -> -1

\* fieldData is an object: its entries [k, t, v] in insertion order.
\* Object.values lists the properties whose keys are array indices first,
\* in ascending order, then the others in insertion order.
ObjectValues(fieldData) ==
  LET At(n) == SelectSeq(fieldData, LAMBDA e : ArrayIndex(e.k) = n)
      own == At(0) \o At(1) \o At(2) \o At(-1)
  IN  [i \in DOMAIN own |-> [t |-> own[i].t, v |-> own[i].v]]

IsString(value) == value.t = "string"

buildSearchText(fieldData) ==
  LET strings == SelectSeq(ObjectValues(fieldData), IsString)
  IN  toLowerCase(join([i \in DOMAIN strings |-> strings[i].v], <<" ">>))

\* fieldData.<key>: the value of the property, or undefined.
Prop(fieldData, key) ==
  IF \E i \in DOMAIN fieldData : fieldData[i].k = key
  THEN LET i == CHOOSE j \in DOMAIN fieldData : fieldData[j].k = key
       IN  [t |-> fieldData[i].t, v |-> fieldData[i].v]
  ELSE Undefined

Truthy(value) ==
  CASE value.t = "string" -> value.v # <<>>
    [] value.t = "number" -> value.v # <<"0">>
    [] OTHER -> FALSE

\* (x as string) || ""
OrEmpty(value) == IF Truthy(value) THEN value ELSE Str(<<>>)

JSONstringify(x) == [json |-> x]
JSONparse(text) == text.json

\* ---------------------------------------------------------------- upstream

Blog ==
  [id |-> "c1", slug |-> <<"b", "l">>, displayName |-> <<"B", "l", "s">>,
   singularName |-> <<"B", "l">>]

Shop ==
  [id |-> "c2", slug |-> <<"s", "h">>, displayName |-> <<"S", "h">>,
   singularName |-> <<"S", "H">>]

\* A collection whose display name is the singular name of Blog.
Bag ==
  [id |-> "c3", slug |-> <<"b", "g">>, displayName |-> <<"B", "l">>,
   singularName |-> <<"B", "a", "g">>]

\* A collection that is itself called "all".
Every ==
  [id |-> "c4", slug |-> <<"a", "l", "l">>, displayName |-> <<"A", "l", "l">>,
   singularName |-> <<"A", "l", "l">>]

\* The states of the CMS the model publishes: per collection the number of
\* live items n and the pagination.total the API reports for it; rev is the
\* revision of the items' content.
Fixtures ==
  << [rev |-> 1, cols |-> << [col |-> Blog, n |-> 2, total |-> 2],
                             [col |-> Shop, n |-> 1, total |-> 1] >>],
     [rev |-> 2, cols |-> << [col |-> Blog, n |-> 101, total |-> 101] >>],
     [rev |-> 1, cols |-> << [col |-> Blog, n |-> 200, total |-> 200],
                             [col |-> Shop, n |-> 0, total |-> 0] >>],
     [rev |-> 2, cols |-> << [col |-> Blog, n |-> 200, total |-> 200],
                             [col |-> Shop, n |-> 0, total |-> 0] >>],
     [rev |-> 1, cols |-> << [col |-> Blog, n |-> 200, total |-> 100] >>],
     [rev |-> 1, cols |-> << >>],
     [rev |-> 1, cols |-> << [col |-> Blog, n |-> 153, total |-> 153],
                             [col |-> Shop, n |-> 3, total |-> 3] >>],
     [rev |-> 1, cols |-> << [col |-> Blog, n |-> 2, total |-> 2],
                             [col |-> Bag, n |-> 3, total |-> 3],
                             [col |-> Every, n |-> 1, total |-> 1] >>] >>

\* The contents the sync behaviours start from and publish, in a cycle.
SyncSites == 1..6

\* The fieldData of the i-th item of a collection at content revision rev.
FieldDataOf(rev, i) ==
  IF i % 3 = 1
  THEN << [k |-> "slug", t |-> "string", v |-> <<"S">>],
          [k |-> "price", t |-> "number", v |-> <<"5">>] >>
  ELSE << [k |-> "name", t |-> "string",
           v |-> IF rev = 1 THEN <<"R", "e", "d">> ELSE <<"H", "a", "t">>],
          [k |-> "stock", t |-> "number", v |-> <<"0">>],
          [k |-> "slug", t |-> "string", v |-> <<"b">>] >>

\* All live items of the k-th collection of fixture f, in upstream order.
UpstreamItems(f, k) ==
  [i \in 1..Fixtures[f].cols[k].n |->
     [id |-> <<Fixtures[f].cols[k].col.id, i>>,
      fieldData |-> FieldDataOf(Fixtures[f].rev, i)]]

UpstreamCollections(f) ==
  [k \in DOMAIN Fixtures[f].cols |-> Fixtures[f].cols[k].col]

HasCollection(f, cid) ==
  \E k \in DOMAIN Fixtures[f].cols : Fixtures[f].cols[k].col.id = cid

IndexOfCollection(f, cid) ==
  CHOOSE k \in DOMAIN Fixtures[f].cols : Fixtures[f].cols[k].col.id = cid

\* GET /collections/<cid>/items/live?offset=<offset>&limit=<lim> on fixture f.
ItemsPage(f, cid, offset, lim) ==
  LET k == IndexOfCollection(f, cid)
      all == UpstreamItems(f, k)
  IN  [items |-> SubSeq(all, offset + 1, Min(offset + lim, Len(all))),
       pagination |-> [limit |-> lim, offset |-> offset,
                       total |-> Fixtures[f].cols[k].total]]

\* Non-success statuses the upstream answers with.
ErrorStatuses == {429, 500}

\* --------------------------------------------------- fetchCollectionItems

\* The loop ending on a short page only.
FetchLoopBreaksOnShortPage(data, allItems) == Len(data.items) < limit

\* The break condition of the while loop, after allItems.push(...data.items).
FetchLoopBreaks(data, allItems) ==
  Len(data.items) < limit \/ Len(allItems) >= data.pagination.total

NoError == [message |-> "", status |-> 0]

\* The loop handing back what it has when a page fails.
FetchIterationKeepsPages(st, f, cid, status) ==
  IF status # 200
  THEN [kind |-> "return", error |-> NoError, items |-> st.items, offset |-> st.offset]
  ELSE LET data == ItemsPage(f, cid, st.offset, limit)
           allItems == st.items \o data.items
       IN  IF FetchLoopBreaks(data, allItems)
           THEN [kind |-> "return", error |-> NoError,
                 items |-> allItems, offset |-> st.offset]
           ELSE [kind |-> "continue", error |-> NoError,
                 items |-> allItems, offset |-> st.offset + limit]

\* The status of the response: the upstream's answer, 404 for a collection
\* it no longer has.
ResponseStatus(f, cid, status) == IF HasCollection(f, cid) THEN status ELSE 404

\* One iteration of the while loop: the response to the page request at
\* st.offset has arrived with `status`; st = [items, offset].
FetchIteration(st, f, cid, status) ==
  IF status # 200
  THEN [kind |-> "throw",
        error |-> [message |-> "Webflow API error", status |-> status],
        items |-> <<>>, offset |-> st.offset]
  ELSE LET data == ItemsPage(f, cid, st.offset, limit)
           allItems == st.items \o data.items
       IN  IF FetchLoopBreaks(data, allItems)
           THEN [kind |-> "return", error |-> NoError,
                 items |-> allItems, offset |-> st.offset]
           ELSE [kind |-> "continue", error |-> NoError,
                 items |-> allItems, offset |-> st.offset + limit]

\* ------------------------------------------------------------ the D1 store

\* Tables in rowid order. items_fts is an FTS5 table: it has no key.
EmptyD1 ==
  [collections |-> <<>>, items |-> <<>>, items_fts |-> <<>>, sync_meta |-> {}]

Stmt(op, table, row) == [op |-> op, table |-> table, row |-> row]

InsertCollection(collection) ==
  Stmt("INSERT", "collections",
       [id |-> collection.id, slug |-> collection.slug,
        display_name |-> collection.displayName,
        singular_name |-> collection.singularName])

\* The values of an item with the text taken as it is written upstream.
ItemRowTextAsWritten(collection, item) ==
  [id |-> item.id,
   name |-> OrEmpty(Prop(item.fieldData, "name")),
   slug |-> OrEmpty(Prop(item.fieldData, "slug")),
   collection_id |-> collection.id,
   collection_slug |-> collection.slug,
   field_data |-> JSONstringify(item.fieldData),
   search_text |->
     LET strings == SelectSeq(ObjectValues(item.fieldData), IsString)
     IN  join([i \in DOMAIN strings |-> strings[i].v], <<" ">>)]

\* The values bound to both INSERT statements of one item.
ItemRow(collection, item) ==
  [id |-> item.id,
   name |-> OrEmpty(Prop(item.fieldData, "name")),
   slug |-> OrEmpty(Prop(item.fieldData, "slug")),
   collection_id |-> collection.id,
   collection_slug |-> collection.slug,
   field_data |-> JSONstringify(item.fieldData),
   search_text |-> buildSearchText(item.fieldData)]

\* The two statements pushed for an entry {collection, item} of allItems;
\* the entry refers to its collection by its place in collections.
ItemStatements(collections, entry) ==
  << Stmt("INSERT", "items", ItemRow(collections[entry.collection], entry.item)),
     Stmt("INSERT", "items_fts", ItemRow(collections[entry.collection], entry.item)) >>

\* The statement list of a sync: statements[n] for n in 1..Len.
StatementCount(collections, allItems) ==
  3 + Len(collections) + 2 * Len(allItems) + 1

StatementAt(collections, allItems, syncedAt, n) ==
  IF n = 1 THEN Stmt("DELETE", "items", <<>>)
  ELSE IF n = 2 THEN Stmt("DELETE", "collections", <<>>)
  ELSE IF n = 3 THEN Stmt("DELETE", "items_fts", <<>>)
  ELSE IF n <= 3 + Len(collections) THEN InsertCollection(collections[n - 3])
  ELSE IF n <= 3 + Len(collections) + 2 * Len(allItems)
  THEN LET m == n - 3 - Len(collections)
       IN  ItemStatements(collections, allItems[(m + 1) \div 2])[2 - (m % 2)]
  ELSE Stmt("UPSERT", "sync_meta", [key |-> "last_sync", value |-> syncedAt])

Statements(collections, allItems, syncedAt) ==
  [n \in 1..StatementCount(collections, allItems) |->
     StatementAt(collections, allItems, syncedAt, n)]

\* A slice that takes one statement more.
SliceOneMore(statements, i, j) ==
  SubSeq(statements, i + 1, Min(j + 1, Len(statements)))

\* statements.slice(i, i + BATCH_CHUNK_SIZE), i counted from 0.
Slice(statements, i, j) == SubSeq(statements, i + 1, Min(j, Len(statements)))

HasId(table, id) == \E n \in DOMAIN table : table[n].id = id
HasSlug(table, slug) == \E n \in DOMAIN table : table[n].slug = slug

\* One statement on the tables db: the tables after it, or a constraint
\* violation (PRIMARY KEY of items and collections, UNIQUE collections.slug).
Violates(db, s) ==
  /\ s.op = "INSERT"
  /\ \/ s.table = "items" /\ HasId(db.items, s.row.id)
     \/ s.table = "collections"
        /\ (HasId(db.collections, s.row.id) \/ HasSlug(db.collections, s.row.slug))

Execute(db, s) ==
  CASE s.op = "DELETE" /\ s.table = "items" -> [db EXCEPT !.items = <<>>]
    [] s.op = "DELETE" /\ s.table = "collections" -> [db EXCEPT !.collections = <<>>]
    [] s.op = "DELETE" /\ s.table = "items_fts" -> [db EXCEPT !.items_fts = <<>>]
    [] s.op = "INSERT" /\ s.table = "collections" ->
         [db EXCEPT !.collections = Append(@, s.row)]
    [] s.op = "INSERT" /\ s.table = "items" -> [db EXCEPT !.items = Append(@, s.row)]
    [] s.op = "INSERT" /\ s.table = "items_fts" ->
         [db EXCEPT !.items_fts = Append(@, s.row)]
    [] s.op = "UPSERT" ->
         [db EXCEPT !.sync_meta =
            {m \in @ : m.key # s.row.key} \cup {s.row}]

RECURSIVE RunBatch(_, _, _, _)
\* The statements chunk[lo..hi] in order on res = [ok, db], stopping at the
\* first constraint violation (evaluated by halves to keep the nesting flat).
RunBatch(res, chunk, lo, hi) ==
  IF ~res.ok \/ lo > hi THEN res
  ELSE IF lo = hi
  THEN IF Violates(res.db, chunk[lo]) THEN [ok |-> FALSE, db |-> res.db]
       ELSE [ok |-> TRUE, db |-> Execute(res.db, chunk[lo])]
  ELSE LET mid == (lo + hi) \div 2
       IN  RunBatch(RunBatch(res, chunk, lo, mid), chunk, mid + 1, hi)

\* d1.batch(chunk): one transaction; a violation rolls everything back.
D1Batch(db, chunk) ==
  LET res == RunBatch([ok |-> TRUE, db |-> db], chunk, 1, Len(chunk))
  IN  IF res.ok THEN res ELSE [ok |-> FALSE, db |-> db]

\* ------------------------------------------------------------ the KV store

EmptyKV == [key \in {} |-> <<>>]

KeyAllItems == <<"all_items">>
KeyCollectionsMeta == <<"collections_meta">>
KeyLastSync == <<"last_sync">>
KeyCollection(slug) == <<"collection:">> \o slug

KVPut(store, key, value) ==
  [k \in DOMAIN store \cup {key} |-> IF k = key THEN value ELSE store[k]]

\* The StoredItem the KV sync keeps for an upstream item.
StoredItem(collection, item) ==
  [id |-> item.id,
   name |-> OrEmpty(Prop(item.fieldData, "name")),
   slug |-> OrEmpty(Prop(item.fieldData, "slug")),
   collectionId |-> collection.id,
   collectionSlug |-> collection.slug,
   fieldData |-> item.fieldData,
   searchText |-> buildSearchText(item.fieldData)]

CollectionMeta(c) ==
  [id |-> c.id, slug |-> c.slug, displayName |-> c.displayName,
   singularName |-> c.singularName]

\* ------------------------------------------------------------------- state

VARIABLES
  backend,      \* the deployed sync handler: "d1" or "kv"
  cms,          \* index in Fixtures of the content the upstream serves now
  published,    \* publications so far
  clock,        \* last value handed out by new Date()
  d1,           \* the relational store
  kv,           \* the key-value store
  run,          \* per request slot: the handler's locals and its response
  started,      \* sync requests received so far
  storeErrors,  \* injected store errors so far
  search,       \* the last search or data request and its response
  page,         \* a browser page running client-search: its cache and calls
  edge          \* caches.default of /api/data: request URL -> response

vars ==
  <<backend, cms, published, clock, d1, kv, run, started, storeErrors,
    search, page, edge>>

\* run[k] is the k-th sync request of the behaviour.
Runs == 1..MaxSyncs

\* Request and environment inputs of a sync request.
Unset == "undefined"
AuthHeaders == {"null", "Bearer s3cret", "Bearer wrong"}
Secrets == {Unset, "", "s3cret"}
Tokens == {Unset, "tok"}
SiteIds == {Unset, "site"}

Configured(value) == value # Unset /\ value # ""

NoReq == [authHeader |-> "null", syncSecret |-> Unset, token |-> Unset, siteId |-> Unset]
NoRet == [kind |-> "none", cid |-> "", items |-> <<>>, pages |-> <<>>, error |-> NoError]
NoBody ==
  [success |-> FALSE, collectionsCount |-> 0, itemsCount |-> 0,
   collections |-> <<>>, syncedAt |-> 0]

\* No search request has been answered yet.
NoSearch ==
  [op |-> "none", q |-> <<>>, collections |-> <<>>, status |-> 0,
   error |-> "", all |-> FALSE, resolved |-> <<>>, results |-> <<>>,
   total |-> 0]

\* The page before client-search has run: `cachedData` and `loadingPromise`
\* are null (0 for no promise), no promise exists, nothing was fetched;
\* validUrl: new URL(config.apiPath, config.apiUrl) does not throw.
\* The search widget of the page (widget: the script it runs): `timeoutId`
\* is the timer of debounce, `input` the value of the search input,
\* `container` the children of the results container besides the template,
\* `searches` the calls of performSearch; `now`, `inputs` and `renders` record
\* the time, the input events and the order in which searches ended.
NoPage ==
  [validUrl |-> TRUE,
   cachedData |-> [set |-> FALSE, items |-> <<>>], loadingPromise |-> 0,
   promises |-> <<>>, calls |-> <<>>, fetches |-> 0,
   widget |-> "client", now |-> 0, input |-> <<>>,
   timeoutId |-> [set |-> FALSE, at |-> 0, args |-> <<>>],
   inputs |-> <<>>, searches |-> <<>>, container |-> <<>>, renders |-> <<>>]

\* The edge cache with nothing in it.
NoEdge == [url \in {} |-> NoSearch]

IdleRun ==
  [pc |-> "idle", req |-> NoReq,
   status |-> 0, error |-> "", details |-> NoError, body |-> NoBody,
   collections |-> <<>>, ci |-> 0,
   offset |-> 0, items |-> <<>>, pages |-> <<>>, ret |-> NoRet,
   allItems |-> <<>>, collectionResults |-> <<>>, totalItems |-> 0,
   storedItems |-> <<>>, syncedAt |-> 0, i |-> 0,
   nFetch |-> 0, nWrites |-> 0,
   before |-> [d1 |-> EmptyD1, kv |-> EmptyKV], overlap |-> FALSE]

Init ==
  /\ backend \in {"d1", "kv"}
  /\ cms \in SyncSites
  /\ published = 0
  /\ clock = 0
  /\ d1 = EmptyD1
  /\ kv = EmptyKV
  /\ run = [r \in Runs |-> IdleRun]
  /\ started = 0
  /\ storeErrors = 0
  /\ search = NoSearch
  /\ page = NoPage
  /\ edge = NoEdge

\* --------------------------------------------------------- handler: shared

Respond(rn, status, error, details) ==
  [rn EXCEPT !.pc = "done", !.req = NoReq,
             !.status = status, !.error = error, !.details = details]

\* The catch block of GET: any throw inside the try answers 500.
Catch(rn, thrown) == Respond(rn, 500, "Failed to sync", thrown)

\* The requests a client can send and the environments they can meet.
Requests ==
  [authHeader : AuthHeaders, syncSecret : Secrets, token : Tokens, siteId : SiteIds]

\* No sync request is in flight.
Quiet == \A q \in Runs : run[q].pc \in {"idle", "done"}

\* The r-th request arrives, with inputs drawn from reqs. The run records
\* the store it finds and whether another run is in flight.
SyncReceive(r, reqs) ==
  /\ run[r].pc = "idle"
  /\ r = started + 1
  /\ \E req \in reqs :
       run' = [run EXCEPT ![r] =
                 [IdleRun EXCEPT !.pc = "received", !.req = req,
                                 !.before = [d1 |-> d1, kv |-> kv],
                                 !.overlap = ~Quiet]]
  /\ started' = started + 1
  /\ UNCHANGED <<search, page, edge, backend, cms, published, clock, d1, kv, storeErrors>>

\* GET up to its first await: the secret, token and site id checks. The
\* request inputs are not read again after them.
Authorized(req) ==
  ~(Configured(req.syncSecret) /\ req.authHeader # "Bearer " \o req.syncSecret)

\* The same checks with the configuration looked at first.
ChecksConfigurationFirst(rn) ==
  IF ~Configured(rn.req.token)
  THEN Respond(rn, 500, "Webflow API token not configured", NoError)
  ELSE IF ~Configured(rn.req.siteId)
  THEN Respond(rn, 500, "Webflow site ID not configured", NoError)
  ELSE IF ~Authorized(rn.req) THEN Respond(rn, 401, "Unauthorized", NoError)
  ELSE [rn EXCEPT !.pc = "context", !.req = NoReq]

Checks(rn) ==
  IF ~Authorized(rn.req) THEN Respond(rn, 401, "Unauthorized", NoError)
  ELSE IF ~Configured(rn.req.token)
  THEN Respond(rn, 500, "Webflow API token not configured", NoError)
  ELSE IF ~Configured(rn.req.siteId)
  THEN Respond(rn, 500, "Webflow site ID not configured", NoError)
  ELSE [rn EXCEPT !.pc = "context", !.req = NoReq]

SyncChecks(r) ==
  /\ run[r].pc = "received"
  /\ run' = [run EXCEPT ![r] = Checks(@)]
  /\ UNCHANGED <<search, page, edge, backend, cms, published, clock, d1, kv, started, storeErrors>>

\* getCloudflareContext resolved: the binding (env.DB or env.SEARCH_CACHE).
SyncContext(r) ==
  /\ run[r].pc = "context"
  /\ \E bound \in BOOLEAN :
       run' = [run EXCEPT ![r] =
                 IF bound THEN [@ EXCEPT !.pc = "collections"]
                 ELSE Respond(@, 500,
                              IF backend = "d1" THEN "D1 database not configured"
                              ELSE "KV namespace not configured", NoError)]
  /\ UNCHANGED <<search, page, edge, backend, cms, published, clock, d1, kv, started, storeErrors>>

\* Start of fetchCollectionItems for collections[ci].
BeginFetch(rn) ==
  [rn EXCEPT !.pc = "items", !.offset = 0, !.items = <<>>, !.pages = <<>>]

\* D1: statements built, syncedAt read, first d1.batch about to run.
Stage(rn, now) == [rn EXCEPT !.pc = "batch", !.syncedAt = now, !.i = 0]

\* The for loop over collections: the next collection, or past the loop.
AfterCollection(rn, now) ==
  IF rn.ci <= Len(rn.collections) THEN BeginFetch(rn)
  ELSE IF backend = "d1" THEN Stage(rn, now)
  ELSE [rn EXCEPT !.pc = "putAllItems"]

ReadsClock(rn) == rn.ci > Len(rn.collections) /\ backend = "d1"

\* A fetch phase that empties the items table before it asks the upstream.
FetchClearsItems == d1' = [d1 EXCEPT !.items = <<>>]

\* The fetch phase makes no call on the store.
FetchLeavesD1 == d1' = d1

\* fetchSiteCollections: one HTTP exchange.
SyncFetchCollections(r) ==
  /\ run[r].pc = "collections"
  /\ \E status \in {200} \cup ErrorStatuses :
       LET rn == [run[r] EXCEPT !.nFetch = @ + 1]
           ok == [rn EXCEPT !.collections = UpstreamCollections(cms), !.ci = 1]
       IN  IF status # 200
           THEN /\ run' = [run EXCEPT ![r] =
                     Catch(rn, [message |-> "Failed to fetch collections",
                                status |-> status])]
                /\ clock' = clock
           ELSE /\ run' = [run EXCEPT ![r] = AfterCollection(ok, clock + 1)]
                /\ clock' = IF ReadsClock(ok) THEN clock + 1 ELSE clock
  /\ FetchLeavesD1
  /\ UNCHANGED <<search, page, edge, backend, cms, published, kv, started, storeErrors>>

\* D1 handler, lines 140-145: the body of the for loop after the fetch.
CollectD1(rn, items) ==
  LET collection == rn.collections[rn.ci]
  IN  [rn EXCEPT
         !.allItems = @ \o [j \in DOMAIN items |->
                              [collection |-> rn.ci, item |-> items[j]]],
         !.collectionResults =
            Append(@, [slug |-> collection.slug, itemCount |-> Len(items)]),
         !.totalItems = @ + Len(items),
         !.ci = @ + 1]

\* KV handler: the body of the for loop up to its kv.put.
CollectKV(rn, items) ==
  LET collection == rn.collections[rn.ci]
      storedItems == [j \in DOMAIN items |-> StoredItem(collection, items[j])]
  IN  [rn EXCEPT
         !.storedItems = storedItems,
         !.allItems = @ \o storedItems,
         !.collectionResults =
            Append(@, [slug |-> collection.slug, itemCount |-> Len(items)]),
         !.pc = "putCollection"]

\* One page request of fetchCollectionItems and what follows its response.
SyncFetchPage(r) ==
  /\ run[r].pc = "items"
  /\ \E status \in {200} \cup ErrorStatuses :
       LET cid == run[r].collections[run[r].ci].id
           response == ResponseStatus(cms, cid, status)
           it == FetchIteration([items |-> run[r].items, offset |-> run[r].offset],
                                cms, cid, response)
           pages == Append(run[r].pages,
                           [offset |-> run[r].offset, cms |-> cms,
                            status |-> response])
           rn == [run[r] EXCEPT !.nFetch = @ + 1, !.pages = pages,
                                !.items = IF it.kind = "continue" THEN it.items
                                          ELSE <<>>,
                                !.offset = it.offset,
                                !.ret = IF it.kind = "continue" THEN @
                                        ELSE [kind |-> it.kind, cid |-> cid,
                                              items |-> it.items, pages |-> pages,
                                              error |-> it.error]]
           collected == IF backend = "d1" THEN CollectD1(rn, it.items)
                        ELSE CollectKV(rn, it.items)
       IN  CASE it.kind = "throw" ->
                  /\ run' = [run EXCEPT ![r] = Catch(rn, it.error)]
                  /\ clock' = clock
             [] it.kind = "continue" ->
                  /\ run' = [run EXCEPT ![r] = rn]
                  /\ clock' = clock
             [] it.kind = "return" /\ backend = "d1" ->
                  /\ run' = [run EXCEPT ![r] = AfterCollection(collected, clock + 1)]
                  /\ clock' = IF ReadsClock(collected) THEN clock + 1 ELSE clock
             [] it.kind = "return" /\ backend = "kv" ->
                  /\ run' = [run EXCEPT ![r] = collected]
                  /\ clock' = clock
  /\ FetchLeavesD1
  /\ UNCHANGED <<search, page, edge, backend, cms, published, kv, started, storeErrors>>

\* Whether the store operation about to run throws (an injected error).
StoreOutcomes == IF storeErrors < MaxStoreErrors THEN {"ok", "error"} ELSE {"ok"}

StoreError == [message |-> "store error", status |-> 0]

SyncResult(rn) ==
  [success |-> TRUE, collectionsCount |-> Len(rn.collections),
   itemsCount |-> IF backend = "d1" THEN rn.totalItems ELSE Len(rn.allItems),
   collections |-> rn.collectionResults, syncedAt |-> rn.syncedAt]

Succeed(rn) ==
  [rn EXCEPT !.pc = "done", !.req = NoReq, !.status = 200, !.body = SyncResult(rn)]

\* D1 handler, lines 194-207: one d1.batch(chunk).
SyncBatch(r) ==
  /\ run[r].pc = "batch"
  /\ \E outcome \in StoreOutcomes :
       LET rn == run[r]
           statements == Statements(rn.collections, rn.allItems, rn.syncedAt)
           chunk == Slice(statements, rn.i, rn.i + BATCH_CHUNK_SIZE)
           res == D1Batch(d1, chunk)
           next == [rn EXCEPT !.i = @ + BATCH_CHUNK_SIZE, !.nWrites = @ + 1]
       IN  IF outcome = "error" \/ ~res.ok
           THEN /\ run' = [run EXCEPT ![r] =
                     Catch(rn, IF outcome = "error" THEN StoreError
                               ELSE [message |-> "constraint failed", status |-> 0])]
                /\ d1' = d1
                /\ storeErrors' = IF outcome = "error" THEN storeErrors + 1
                                  ELSE storeErrors
           ELSE /\ d1' = res.db
                /\ run' = [run EXCEPT ![r] =
                     IF next.i < Len(statements) THEN next ELSE Succeed(next)]
                /\ storeErrors' = storeErrors
  /\ UNCHANGED <<search, page, edge, backend, cms, published, clock, kv, started>>

\* One awaited kv.put of the KV handler: the key and value it writes and the
\* handler's locals after it.
KVStep(r, key, value, after) ==
  \E outcome \in StoreOutcomes :
    IF outcome = "error"
    THEN /\ run' = [run EXCEPT ![r] = Catch(@, StoreError)]
         /\ kv' = kv
         /\ storeErrors' = storeErrors + 1
    ELSE /\ kv' = KVPut(kv, key, value)
         /\ run' = [run EXCEPT ![r] = [after EXCEPT !.nWrites = @ + 1]]
         /\ storeErrors' = storeErrors

\* kv.put(`collection:${collection.slug}`, ...), then the next collection.
SyncPutCollection(r) ==
  /\ run[r].pc = "putCollection"
  /\ KVStep(r, KeyCollection(run[r].collections[run[r].ci].slug),
            JSONstringify(run[r].storedItems),
            AfterCollection([run[r] EXCEPT !.ci = @ + 1], clock))
  /\ UNCHANGED <<search, page, edge, backend, cms, published, clock, d1, started>>

\* kv.put("all_items", ...)
SyncPutAllItems(r) ==
  /\ run[r].pc = "putAllItems"
  /\ KVStep(r, KeyAllItems, JSONstringify(run[r].allItems),
            [run[r] EXCEPT !.pc = "putMeta"])
  /\ UNCHANGED <<search, page, edge, backend, cms, published, clock, d1, started>>

\* kv.put("collections_meta", ...), then syncedAt = new Date().
SyncPutMeta(r) ==
  /\ run[r].pc = "putMeta"
  /\ KVStep(r, KeyCollectionsMeta,
            JSONstringify([j \in DOMAIN run[r].collections |->
                             CollectionMeta(run[r].collections[j])]),
            [run[r] EXCEPT !.pc = "putLastSync", !.syncedAt = clock + 1])
  /\ clock' = IF run'[r].pc = "putLastSync" THEN clock + 1 ELSE clock
  /\ UNCHANGED <<search, page, edge, backend, cms, published, d1, started>>

\* kv.put("last_sync", syncedAt), then the 200 response.
SyncPutLastSync(r) ==
  /\ run[r].pc = "putLastSync"
  /\ KVStep(r, KeyLastSync, run[r].syncedAt, Succeed(run[r]))
  /\ UNCHANGED <<search, page, edge, backend, cms, published, clock, d1, started>>

\* The upstream CMS publishes other content.
Publish ==
  /\ published < MaxPublishes
  /\ cms' = (cms % Cardinality(SyncSites)) + 1
  /\ published' = published + 1
  /\ UNCHANGED <<search, page, edge, backend, clock, d1, kv, run, started, storeErrors>>

\* ----------------------------------------------------------- specification

\* The handler's steps after the request has arrived.
Step(r) ==
  \/ SyncChecks(r)
  \/ SyncContext(r)
  \/ SyncFetchCollections(r)
  \/ SyncFetchPage(r)
  \/ SyncBatch(r)
  \/ SyncPutCollection(r)
  \/ SyncPutAllItems(r)
  \/ SyncPutMeta(r)
  \/ SyncPutLastSync(r)

\* Sync requests one after the other, as the manual or scheduled trigger
\* sends them.
Next ==
  \/ \E r \in Runs : (Quiet /\ SyncReceive(r, Requests)) \/ Step(r)
  \/ Publish

Spec == Init /\ [][Next]_vars

\* Sync requests that may overlap: the endpoint takes no lock, so a request
\* can arrive while another is between two awaits. The requests are ones
\* that pass the checks, on a site of two collections and 200 items.
PassingRequests ==
  {req \in Requests :
     /\ req.syncSecret = "s3cret" /\ Authorized(req)
     /\ Configured(req.token) /\ Configured(req.siteId)}

InitConc == Init /\ cms = 3

NextConc ==
  \/ \E r \in Runs : SyncReceive(r, PassingRequests) \/ Step(r)
  \/ Publish

SpecConc == InitConc /\ [][NextConc]_vars

\* ------------------------------------------------------ snapshots of a run

InFlight(r) == run[r].pc \notin {"idle", "done"}

\* The handler has left the loop over the collections: everything the
\* upstream returned in this run is in rn.collections and rn.allItems.
FetchedAll(rn) == rn.ci > Len(rn.collections)

LastSyncD1(db) ==
  IF \E m \in db.sync_meta : m.key = "last_sync"
  THEN (CHOOSE m \in db.sync_meta : m.key = "last_sync").value
  ELSE 0

LastSyncKV(store) == IF KeyLastSync \in DOMAIN store THEN store[KeyLastSync] ELSE 0

CollectionRows(rn) ==
  [j \in DOMAIN rn.collections |->
     [id |-> rn.collections[j].id, slug |-> rn.collections[j].slug,
      display_name |-> rn.collections[j].displayName,
      singular_name |-> rn.collections[j].singularName]]

ItemRows(rn) ==
  [j \in DOMAIN rn.allItems |->
     ItemRow(rn.collections[rn.allItems[j].collection], rn.allItems[j].item)]

\* The relational store holding the complete snapshot of run rn.
NewD1(rn) ==
  [collections |-> CollectionRows(rn),
   items |-> ItemRows(rn),
   items_fts |-> ItemRows(rn),
   sync_meta |-> {m \in rn.before.d1.sync_meta : m.key # "last_sync"}
                 \cup {[key |-> "last_sync", value |-> rn.syncedAt]}]

ItemsOfCollection(rn, c) ==
  LET Of(e) == e.collectionId = c.id IN SelectSeq(rn.allItems, Of)

RunKeys(rn) ==
  {KeyAllItems, KeyCollectionsMeta, KeyLastSync}
    \cup {KeyCollection(rn.collections[j].slug) : j \in DOMAIN rn.collections}

RunValue(rn, key) ==
  IF key = KeyAllItems THEN JSONstringify(rn.allItems)
  ELSE IF key = KeyCollectionsMeta
  THEN JSONstringify([j \in DOMAIN rn.collections |-> CollectionMeta(rn.collections[j])])
  ELSE IF key = KeyLastSync THEN rn.syncedAt
  ELSE LET j == CHOOSE n \in DOMAIN rn.collections :
                  key = KeyCollection(rn.collections[n].slug)
       IN  JSONstringify(ItemsOfCollection(rn, rn.collections[j]))

\* The KV store holding every entry of run rn over what was there before.
NewKV(rn) ==
  [key \in DOMAIN rn.before.kv \cup RunKeys(rn) |->
     IF key \in RunKeys(rn) THEN RunValue(rn, key) ELSE rn.before.kv[key]]

SeesBefore(rn) == d1 = rn.before.d1 /\ kv = rn.before.kv

SeesNew(rn) ==
  /\ FetchedAll(rn)
  /\ backend = "d1" => d1 = NewD1(rn)
  /\ backend = "kv" => kv = NewKV(rn)

\* ------------------------------------------------------------------ claims

\* C1: at every point during a sync a reader sees either the complete
\* snapshot that was there before the sync or the complete new snapshot.
C1_CompleteSnapshotAtEveryRead ==
  \A r \in Runs : InFlight(r) => SeesBefore(run[r]) \/ SeesNew(run[r])

\* The latest request has been answered.
Answered(r) == r = started /\ run[r].pc = "done"

FetchFailed(rn) ==
  rn.details.message \in {"Failed to fetch collections", "Webflow API error"}

\* C2: in the relational sync a failed fetch of the collection list or of
\* any page answers 500 with no statement executed: the tables are as they
\* were before the request.
C2_FetchFailureWritesNothing ==
  \A r \in Runs :
    backend = "d1" /\ Answered(r) /\ FetchFailed(run[r])
      => /\ run[r].status = 500
         /\ run[r].nWrites = 0
         /\ d1 = run[r].before.d1

\* A later page of a collection fails while the store holds an earlier
\* snapshot.
C2_Witness ==
  \E r \in Runs :
    /\ backend = "d1" /\ Answered(r) /\ FetchFailed(run[r])
    /\ Len(run[r].pages) >= 2
    /\ run[r].before.d1.items # <<>>

BatchFailed(rn) == rn.details.message \in {"store error", "constraint failed"}

\* C3: when a d1.batch chunk fails the handler answers 500 and the store
\* holds the previous complete snapshot, row for row.
C3_BatchFailureKeepsPreviousSnapshot ==
  \A r \in Runs :
    backend = "d1" /\ Answered(r) /\ BatchFailed(run[r])
      => run[r].status = 500 /\ d1 = run[r].before.d1

HoldsExactlyD1(rn) ==
  /\ d1.collections = CollectionRows(rn)
  /\ d1.items = ItemRows(rn)
  /\ d1.items_fts = ItemRows(rn)

HoldsExactlyKV(rn) ==
  /\ DOMAIN kv = RunKeys(rn)
  /\ \A key \in RunKeys(rn) : kv[key] = RunValue(rn, key)

\* C4: after a successful sync (here: one that follows only successful
\* syncs) the store holds exactly the collections and items the upstream
\* returned in that sync, under no table or key anything of an earlier
\* snapshot.
C4_StoreHoldsExactlyTheSync ==
  \A r \in Runs :
    Answered(r) /\ (\A q \in 1..r : run[q].status = 200)
      => /\ backend = "d1" => HoldsExactlyD1(run[r])
         /\ backend = "kv" => HoldsExactlyKV(run[r])

\* ------------------------------------------------------------- pagination

Ceil(n, p) == (n + p - 1) \div p

\* A finished call of fetchCollectionItems all of whose pages were served
\* from the same upstream content f, which still had the collection.
ServedFrom(ret, f) ==
  /\ ret.pages # <<>>
  /\ \A j \in DOMAIN ret.pages : ret.pages[j].cms = f
  /\ HasCollection(f, ret.cid)

RealCount(f, cid) == Fixtures[f].cols[IndexOfCollection(f, cid)].n
ReportedTotal(f, cid) == Fixtures[f].cols[IndexOfCollection(f, cid)].total

OffsetsInOrder(ret) == \A j \in DOMAIN ret.pages : ret.pages[j].offset = (j - 1) * limit

\* C5 as stated: N items in upstream order with exactly ceil(N/P) page
\* requests at offsets 0, P, 2P, ... for every N.
C5_CeilPageRequests ==
  \A r \in Runs : \A f \in DOMAIN Fixtures :
    LET ret == run[r].ret
    IN  /\ ret.kind = "return"
        /\ ServedFrom(ret, f)
        /\ ReportedTotal(f, ret.cid) = RealCount(f, ret.cid)
        => /\ ret.items = UpstreamItems(f, IndexOfCollection(f, ret.cid))
           /\ Len(ret.pages) = Ceil(RealCount(f, ret.cid), limit)
           /\ OffsetsInOrder(ret)

\* C5 amended: N items in upstream order with ceil(N/P) page requests at
\* offsets 0, P, 2P, ... when N >= 1, and with one request when N = 0.
C5_PageRequests ==
  \A r \in Runs : \A f \in DOMAIN Fixtures :
    LET ret == run[r].ret
        n == RealCount(f, ret.cid)
    IN  /\ ret.kind = "return"
        /\ ServedFrom(ret, f)
        /\ ReportedTotal(f, ret.cid) = RealCount(f, ret.cid)
        => /\ ret.items = UpstreamItems(f, IndexOfCollection(f, ret.cid))
           /\ Len(ret.pages) = IF n = 0 THEN 1 ELSE Ceil(n, limit)
           /\ OffsetsInOrder(ret)

\* A collection whose item count is an exact multiple of the page size, on
\* more than one page, has been fetched.
C5_Witness ==
  \E r \in Runs : \E f \in DOMAIN Fixtures :
    /\ run[r].ret.kind = "return"
    /\ ServedFrom(run[r].ret, f)
    /\ ReportedTotal(f, run[r].ret.cid) = RealCount(f, run[r].ret.cid)
    /\ RealCount(f, run[r].ret.cid) = 2 * limit

\* C6: with a reported total below the real item count the fetch goes on
\* while pages are full, so every real item is fetched.
C6_UndercountFetchesAll ==
  \A r \in Runs : \A f \in DOMAIN Fixtures :
    LET ret == run[r].ret
    IN  /\ ret.kind = "return"
        /\ ServedFrom(ret, f)
        /\ ReportedTotal(f, ret.cid) < RealCount(f, ret.cid)
        => ret.items = UpstreamItems(f, IndexOfCollection(f, ret.cid))

CollectionIdOf(rn, entry) ==
  IF backend = "d1" THEN rn.collections[entry.collection].id ELSE entry.collectionId

\* C7: a page request answered with a non-success status makes the fetch
\* throw an error carrying that status; it is the last page request, and
\* the caller gets none of the items of the earlier pages.
C7_FailedPageAbortsFetch ==
  \A r \in Runs :
    LET rn == run[r]
        last == Len(rn.pages)
    IN  (\E j \in DOMAIN rn.pages : rn.pages[j].status # 200)
        => /\ \A j \in 1..(last - 1) : rn.pages[j].status = 200
           /\ rn.ret.kind = "throw"
           /\ rn.ret.error.status = rn.pages[last].status
           /\ rn.ret.items = <<>>
           /\ rn.pc = "done" /\ rn.status = 500 /\ rn.details = rn.ret.error
           /\ \A j \in DOMAIN rn.allItems :
                CollectionIdOf(rn, rn.allItems[j]) # rn.ret.cid

\* The second page of a collection fails after a full first page.
C7_Witness ==
  \E r \in Runs :
    /\ run[r].ret.kind = "throw"
    /\ Len(run[r].pages) = 2
    /\ run[r].pages[2].status = 429

\* ---------------------------------------------------------- authorization

SecretMismatch(req) ==
  /\ req.syncSecret \notin {Unset, ""}
  /\ req.authHeader # "Bearer " \o req.syncSecret

ConfigMissing(req) == req.token \in {Unset, ""} \/ req.siteId \in {Unset, ""}

RejectedEarly(rn) ==
  /\ rn.pc = "done"
  /\ rn.error \in {"Unauthorized", "Webflow API token not configured",
                   "Webflow site ID not configured"}

\* C8: a sync request gets 401 exactly when a secret is configured and the
\* Authorization header is not `Bearer <secret>`, whatever the rest of the
\* configuration; a request rejected with 401, or with 500 for a missing
\* token or site id, makes no upstream request and no store write.
C8_SecretCheckedFirst ==
  /\ [](\A r \in Runs :
          RejectedEarly(run[r])
            => /\ run[r].nFetch = 0 /\ run[r].nWrites = 0
               /\ run[r].status \in {401, 500}
               /\ run[r].status = 401 <=> run[r].error = "Unauthorized")
  /\ [][\A r \in Runs :
          run[r].pc = "received" /\ run'[r].pc # "received"
            => /\ run'[r].status = 401 <=> SecretMismatch(run[r].req)
               /\ ~SecretMismatch(run[r].req) /\ ConfigMissing(run[r].req)
                    => run'[r].status = 500 /\ RejectedEarly(run'[r])
               /\ ~SecretMismatch(run[r].req) /\ ~ConfigMissing(run[r].req)
                    => run'[r].pc = "context"
               /\ d1' = d1 /\ kv' = kv]_vars

\* A request is turned away with 401 while the store holds a snapshot.
C8_Witness ==
  \E r \in Runs :
    /\ Answered(r) /\ run[r].status = 401
    /\ (d1.items # <<>> \/ KeyAllItems \in DOMAIN kv)

\* -------------------------------------------------------------- last_sync

HoldsRunKV(rn) ==
  \A key \in RunKeys(rn) : key \in DOMAIN kv /\ kv[key] = RunValue(rn, key)

\* C9: last_sync is the final write of a run, so whenever last_sync holds
\* the value of a run the complete snapshot of that run is in the store.
C9_LastSyncMeansCompleteSnapshot ==
  \A r \in Runs :
    run[r].syncedAt # 0
      => /\ backend = "d1" /\ LastSyncD1(d1) = run[r].syncedAt
              => FetchedAll(run[r]) /\ HoldsExactlyD1(run[r])
         /\ backend = "kv" /\ LastSyncKV(kv) = run[r].syncedAt
              => FetchedAll(run[r]) /\ HoldsRunKV(run[r])

\* ------------------------------------------------------------- searchText

\* The entries kept under the item keys of the KV store.
KVItemKeys == DOMAIN kv \ {KeyCollectionsMeta, KeyLastSync}

TextOf(row) == <<row.id, row.search_text, row.field_data>>

\* The search text of a row is buildSearchText of the row's own field data.
TextOfOwnFieldData(row) ==
  row.search_text = buildSearchText(JSONparse(row.field_data))

\* An items_fts row of an item that has an items row carries its text.
FtsRowsAgree ==
  LET ids == {d1.items[n].id : n \in DOMAIN d1.items}
      texts == {TextOf(d1.items[n]) : n \in DOMAIN d1.items}
  IN  \A m \in DOMAIN d1.items_fts :
        d1.items_fts[m].id \in ids => TextOf(d1.items_fts[m]) \in texts

KVEntriesOwnFieldData ==
  \A key \in KVItemKeys :
    LET entries == JSONparse(kv[key])
    IN  \A n \in DOMAIN entries :
          entries[n].searchText = buildSearchText(entries[n].fieldData)

NoOverlap == \A r \in Runs : ~run[r].overlap

Contains(text, sub) ==
  \E i \in 0..(Len(text) - Len(sub)) : SubSeq(text, i + 1, i + Len(sub)) = sub

RECURSIVE TrimStart(_)
TrimStart(s) == IF s # <<>> /\ s[1] = " " THEN TrimStart(Tail(s)) ELSE s

RECURSIVE TrimEnd(_)
TrimEnd(s) ==
  IF s # <<>> /\ s[Len(s)] = " " THEN TrimEnd(SubSeq(s, 1, Len(s) - 1)) ELSE s

\* String.prototype.trim, for the space character.
Trim(s) == TrimEnd(TrimStart(s))

RECURSIVE Split(_, _)
\* String.prototype.split on a one-character separator.
Split(s, sep) ==
  IF \E i \in DOMAIN s : s[i] = sep
  THEN LET i == CHOOSE j \in DOMAIN s :
                  s[j] = sep /\ \A k \in 1..(j - 1) : s[k] # sep
       IN  <<SubSeq(s, 1, i - 1)>> \o Split(SubSeq(s, i + 1, Len(s)), sep)
  ELSE <<s>>

\* Array.prototype.includes.
Includes(array, x) == \E i \in DOMAIN array : array[i] = x

\* A request parameter that is absent: searchParams.get(...) gives null.
NoParam == <<"null">>

\* searchParams.get("collections") || "all"
CollectionsParam(cp) ==
  IF cp = NoParam \/ cp = <<>> THEN <<"a", "l", "l">> ELSE cp

\* The comparison with "all" made on the string as it was sent.
IsAllAsSent(collectionsParam) == collectionsParam = <<"a", "l", "l">>

\* collectionsParam.toLowerCase() === "all"
IsAll(collectionsParam) == toLowerCase(collectionsParam) = <<"a", "l", "l">>

\* The tokens taken as they were sent.
RequestedNamesAsSent(collectionsParam) == Split(collectionsParam, ",")

\* collectionsParam.split(",").map((s) => s.trim().toLowerCase())
RequestedNames(collectionsParam) ==
  LET parts == Split(collectionsParam, ",")
  IN  [i \in DOMAIN parts |-> toLowerCase(Trim(parts[i]))]

\* resolveCollections of the upstream-direct search: the ids selected for
\* `requested`, one per token at most, in token order.
resolveCollections(requested, collections) ==
  IF IsAll(requested)
  THEN [k \in DOMAIN collections |-> collections[k].id]
  ELSE LET requestedNames == RequestedNames(requested)
           Matches(c, name) ==
             \/ toLowerCase(c.slug) = name
             \/ toLowerCase(c.displayName) = name
             \/ toLowerCase(c.singularName) = name
           Found(name) == \E k \in DOMAIN collections : Matches(collections[k], name)
           Find(name) ==
             CHOOSE k \in DOMAIN collections :
               /\ Matches(collections[k], name)
               /\ \A j \in 1..(k - 1) : ~Matches(collections[j], name)
           named == SelectSeq(requestedNames, Found)
       IN  [i \in DOMAIN named |-> collections[Find(named[i])].id]

\* The rows of `collections` a requested name selects in the store-backed
\* endpoints: collections.filter(...) of the LIKE endpoints and the
\* subquery SELECT slug FROM collections WHERE LOWER(slug) IN (...) OR ...
\* of the FTS and data endpoints (LOWER folds the ASCII letters).
Selected(row, requestedNames) ==
  \/ Includes(requestedNames, toLowerCase(row.slug))
  \/ Includes(requestedNames, toLowerCase(row.display_name))
  \/ Includes(requestedNames, toLowerCase(row.singular_name))

\* A filter that falls back to all collections when it selects none.
MatchingSlugsOrAll(rows, requestedNames) ==
  LET kept == SelectSeq(rows, LAMBDA row : Selected(row, requestedNames))
  IN  IF kept = <<>> THEN [i \in DOMAIN rows |-> rows[i].slug]
      ELSE [i \in DOMAIN kept |-> kept[i].slug]

\* .filter(...).map((c) => c.slug) over the rows of the collections table.
MatchingSlugs(rows, requestedNames) ==
  LET kept == SelectSeq(rows, LAMBDA row : Selected(row, requestedNames))
  IN  [i \in DOMAIN kept |-> kept[i].slug]

\* The set the subquery of the SQL endpoints yields.
SubquerySlugs(rows, requestedNames) ==
  {rows[i].slug : i \in {j \in DOMAIN rows : Selected(rows[j], requestedNames)}}

RECURSIVE Like(_, _)
\* SQLite's `text LIKE pattern` without ESCAPE: % is any run of characters,
\* _ any one character, a letter matches in either case.
Like(pattern, text) ==
  IF pattern = <<>> THEN text = <<>>
  ELSE IF pattern[1] = "%"
  THEN Like(Tail(pattern), text) \/ (text # <<>> /\ Like(pattern, Tail(text)))
  ELSE /\ text # <<>>
       /\ (pattern[1] = "_" \/ ToLowerChar(pattern[1]) = ToLowerChar(text[1]))
       /\ Like(Tail(pattern), Tail(text))

\* `%${query.toLowerCase()}%`
LowerQuery(query) == <<"%">> \o toLowerCase(query) \o <<"%">>

\* The columns the search endpoints select, field_data parsed.
SearchResult(row) ==
  [id |-> row.id, name |-> row.name, slug |-> row.slug,
   collectionId |-> row.collection_id, fieldData |-> JSONparse(row.field_data)]

\* The item the data endpoints hand out for a row.
DataItem(row) ==
  [id |-> row.id, name |-> row.name, slug |-> row.slug,
   collectionId |-> row.collection_id, collectionSlug |-> row.collection_slug,
   fieldData |-> JSONparse(row.field_data), searchText |-> row.search_text]

\* A JSON response of a search or data endpoint.
\* `all` and `resolved` record the branch taken and the collections the
\* filter named (ids in the upstream-direct search, slugs in the others).
Answer(op, q, cp, status, all, resolved, results) ==
  [op |-> op, q |-> q, collections |-> cp, status |-> status,
   error |-> "", all |-> all, resolved |-> resolved, results |-> results,
   total |-> Len(results)]

\* jsonResponse({ error, details }, status): a response without a list.
Failure(op, q, cp, status, error) ==
  [Answer(op, q, cp, status, FALSE, <<>>, <<>>) EXCEPT !.error = error]

\* !query: the parameter is absent or empty.
NoQuery(q) == q = NoParam \/ q = <<>>

\* GET /api/search of src/app/api/search/route.ts (drizzle, LIKE) on the
\* tables db; bound: env.DB is there.
LikeSearch(db, bound, q, cp) ==
  LET collectionsParam == CollectionsParam(cp)
      lowerQuery == LowerQuery(q)
      Hit(row) == Like(lowerQuery, row.search_text)
      requestedNames == RequestedNames(collectionsParam)
      matchingSlugs == MatchingSlugs(db.collections, requestedNames)
      all == SelectSeq(db.items, Hit)
      some == SelectSeq(db.items,
                LAMBDA row : Includes(matchingSlugs, row.collection_slug) /\ Hit(row))
  IN  IF NoQuery(q)
      THEN Failure("like", q, cp, 400, "Query parameter 'q' is required")
      ELSE IF ~bound THEN Failure("like", q, cp, 500, "Failed to search: D1 database not configured")
      ELSE IF IsAll(collectionsParam)
      THEN Answer("like", q, cp, 200, TRUE, <<>>,
                  [i \in DOMAIN all |-> SearchResult(all[i])])
      ELSE IF matchingSlugs = <<>>
      THEN Answer("like", q, cp, 200, FALSE, <<>>, <<>>)
      ELSE Answer("like", q, cp, 200, FALSE, matchingSlugs,
                  [i \in DOMAIN some |-> SearchResult(some[i])])

\* The data endpoint of src/app/api/search/route.ts (drizzle).
DrizzleData(db, bound, cp) ==
  LET collectionsParam == CollectionsParam(cp)
      requestedNames == RequestedNames(collectionsParam)
      matchingSlugs == MatchingSlugs(db.collections, requestedNames)
      some == SelectSeq(db.items,
                LAMBDA row : Includes(matchingSlugs, row.collection_slug))
  IN  IF ~bound THEN Failure("data", NoParam, cp, 500,
                           "Failed to fetch data: D1 database not configured")
      ELSE IF IsAll(collectionsParam)
      THEN Answer("data", NoParam, cp, 200, TRUE, <<>>,
                  [i \in DOMAIN db.items |-> DataItem(db.items[i])])
      ELSE IF matchingSlugs = <<>>
      THEN Answer("data", NoParam, cp, 200, FALSE, <<>>, <<>>)
      ELSE Answer("data", NoParam, cp, 200, FALSE, matchingSlugs,
                  [i \in DOMAIN some |-> DataItem(some[i])])

\* ---------------------------------------------------------------- FTS5

\* Characters the FTS5 tokenizer (unicode61) takes as separators.
Separators == {" ", "_", "%", ",", "-"}

RECURSIVE Tokenize(_)
\* The tokens of a text: its runs of letters and digits, case folded.
Tokenize(text) ==
  IF text = <<>> THEN <<>>
  ELSE IF text[1] \in Separators THEN Tokenize(Tail(text))
  ELSE LET stop == IF \E i \in DOMAIN text : text[i] \in Separators
                   THEN (CHOOSE i \in DOMAIN text :
                           /\ text[i] \in Separators
                           /\ \A j \in 1..(i - 1) : text[j] \notin Separators) - 1
                   ELSE Len(text)
       IN  <<toLowerCase(SubSeq(text, 1, stop))>>
             \o Tokenize(SubSeq(text, stop + 1, Len(text)))

\* formatFtsQuery: one prefix phrase "w"* per word of the query, or the
\* one empty phrase "" for a query without words.
formatFtsQuery(query) ==
  LET words == SelectSeq(Split(query, " "), LAMBDA w : w # <<>>)
  IN  IF words = <<>> THEN << [phrase |-> <<>>, prefix |-> FALSE] >>
      ELSE [i \in DOMAIN words |-> [phrase |-> words[i], prefix |-> TRUE]]

IsPrefix(p, t) == Len(p) <= Len(t) /\ SubSeq(t, 1, Len(p)) = p

\* A phrase occurs in the text of one column.
PhraseIn(phrase, column) ==
  LET want == Tokenize(phrase.phrase)
      have == Tokenize(column)
      n == Len(want)
  IN  \E start \in 1..(Len(have) - n + 1) :
        /\ \A i \in 1..(n - 1) : have[start + i - 1] = want[i]
        /\ IF phrase.prefix THEN IsPrefix(want[n], have[start + n - 1])
           ELSE have[start + n - 1] = want[n]

\* items_fts MATCH ?: every phrase that has a token occurs in an indexed
\* column (name, search_text) of the row; a query without tokens matches
\* no row.
FtsMatch(row, ftsQuery) ==
  LET real == SelectSeq(ftsQuery, LAMBDA phrase : Tokenize(phrase.phrase) # <<>>)
  IN  /\ real # <<>>
      /\ \A i \in DOMAIN real :
           PhraseIn(real[i], row.name.v) \/ PhraseIn(real[i], row.search_text)

\* LIMIT 100 of both FTS statements.
FTS_LIMIT == 100

\* SELECT ... FROM items_fts WHERE items_fts MATCH ? LIMIT 100, in rowid
\* order.
FtsSelectAll(rows, ftsQuery) ==
  LET kept == SelectSeq(rows, LAMBDA row : FtsMatch(row, ftsQuery))
  IN  SubSeq(kept, 1, Min(FTS_LIMIT, Len(kept)))

\* The statement with the cap taken on the matching rows before the
\* collection restriction.
FtsSelectCapFirst(rows, slugs, ftsQuery) ==
  SelectSeq(FtsSelectAll(rows, ftsQuery), LAMBDA row : row.collection_slug \in slugs)

\* SELECT ... FROM items_fts WHERE collection_slug IN (<slugs>) AND
\* items_fts MATCH ? LIMIT 100.
FtsSelect(rows, slugs, ftsQuery) ==
  LET kept == SelectSeq(rows, LAMBDA row : /\ row.collection_slug \in slugs
                                           /\ FtsMatch(row, ftsQuery))
  IN  SubSeq(kept, 1, Min(FTS_LIMIT, Len(kept)))

\* GET /api/search of src/unnamed/part_003 (FTS5).
FtsSearch(db, bound, q, cp) ==
  LET collectionsParam == CollectionsParam(cp)
      ftsQuery == formatFtsQuery(q)
      requestedNames == RequestedNames(collectionsParam)
      slugs == SubquerySlugs(db.collections, requestedNames)
      all == FtsSelectAll(db.items_fts, ftsQuery)
      some == FtsSelect(db.items_fts, slugs, ftsQuery)
  IN  IF NoQuery(q)
      THEN Failure("fts", q, cp, 400, "Query parameter 'q' is required")
      ELSE IF ~bound THEN Failure("fts", q, cp, 500, "Database not configured")
      ELSE IF IsAll(collectionsParam)
      THEN Answer("fts", q, cp, 200, TRUE, <<>>,
                  [i \in DOMAIN all |-> SearchResult(all[i])])
      ELSE Answer("fts", q, cp, 200, FALSE,
                  MatchingSlugs(db.collections, requestedNames),
                  [i \in DOMAIN some |-> SearchResult(some[i])])

\* GET /api/data of src/app/api/data/route.ts on a cache miss, up to the
\* response it builds.
SqlData(db, bound, cp) ==
  LET collectionsParam == CollectionsParam(cp)
      requestedNames == RequestedNames(collectionsParam)
      slugs == SubquerySlugs(db.collections, requestedNames)
      some == SelectSeq(db.items, LAMBDA row : row.collection_slug \in slugs)
  IN  IF ~bound THEN Failure("sqldata", NoParam, cp, 500, "Database not configured")
      ELSE IF IsAll(collectionsParam)
      THEN Answer("sqldata", NoParam, cp, 200, TRUE, <<>>,
                  [i \in DOMAIN db.items |-> DataItem(db.items[i])])
      ELSE Answer("sqldata", NoParam, cp, 200, FALSE,
                  MatchingSlugs(db.collections, requestedNames),
                  [i \in DOMAIN some |-> DataItem(some[i])])

\* ------------------------------------------------- upstream-direct search

RECURSIVE FetchFrom(_, _, _)
\* fetchCollectionItems when every page request succeeds.
FetchFrom(st, f, cid) ==
  LET it == FetchIteration(st, f, cid, 200)
  IN  IF it.kind = "continue"
      THEN FetchFrom([items |-> it.items, offset |-> it.offset], f, cid)
      ELSE it.items

FetchAll(f, cid) == FetchFrom([items |-> <<>>, offset |-> 0], f, cid)

\* searchItems of the upstream-direct search: the items one of whose string
\* fields contains the lowercased query.
searchItems(items, query, collectionId) ==
  LET lowerQuery == toLowerCase(query)
      Hit(item) ==
        LET values == ObjectValues(item.fieldData)
        IN  \E i \in DOMAIN values :
              IsString(values[i]) /\ Contains(toLowerCase(values[i].v), lowerQuery)
      kept == SelectSeq(items, Hit)
  IN  [i \in DOMAIN kept |->
         [id |-> kept[i].id,
          name |-> OrEmpty(Prop(kept[i].fieldData, "name")),
          slug |-> OrEmpty(Prop(kept[i].fieldData, "slug")),
          collectionId |-> collectionId,
          fieldData |-> kept[i].fieldData]]

RECURSIVE SearchEach(_, _, _)
\* The for loop over collectionIds: results.push(...matches) per collection.
SearchEach(f, collectionIds, query) ==
  IF collectionIds = <<>> THEN <<>>
  ELSE searchItems(FetchAll(f, collectionIds[1]), query, collectionIds[1])
         \o SearchEach(f, Tail(collectionIds), query)

\* GET of the upstream-direct search on the site f. env: the token and the
\* site id; siteStatus: the status of the collections request; failed: the
\* place in collectionIds of the collection whose fetch throws, 0 for none.
DirectSearch(f, env, siteStatus, failed, q, cp) ==
  LET collectionsParam == CollectionsParam(cp)
      siteCollections == UpstreamCollections(f)
      collectionIds == resolveCollections(collectionsParam, siteCollections)
  IN  IF NoQuery(q)
      THEN Failure("direct", q, cp, 400, "Query parameter 'q' is required")
      ELSE IF ~Configured(env.token)
      THEN Failure("direct", q, cp, 500, "Webflow API token not configured")
      ELSE IF ~Configured(env.siteId)
      THEN Failure("direct", q, cp, 500, "Webflow site ID not configured")
      ELSE IF siteStatus # 200
      THEN Failure("direct", q, cp, 500, "Failed to fetch site collections")
      ELSE IF siteCollections = <<>>
      THEN Failure("direct", q, cp, 404, "No collections found for this site")
      ELSE IF collectionIds = <<>>
      THEN Failure("direct", q, cp, 404, "Collection not found")
      ELSE IF failed \in DOMAIN collectionIds
      THEN [Answer("direct", q, cp, 500, IsAll(collectionsParam), collectionIds, <<>>)
              EXCEPT !.error = "Failed to search collections"]
      ELSE Answer("direct", q, cp, 200, IsAll(collectionsParam), collectionIds,
                  SearchEach(f, collectionIds, q))

\* ------------------------------------------------------ client searchItems

\* searchItems of client-search on the loaded items.
searchItemsClient(items, query) ==
  IF Trim(query) = <<>> THEN <<>>
  ELSE LET lowerQuery == toLowerCase(query)
           kept == SelectSeq(items,
                     LAMBDA item : Contains(item.searchText, lowerQuery))
       IN  [i \in DOMAIN kept |->
              [id |-> kept[i].id, name |-> kept[i].name, slug |-> kept[i].slug,
               collectionId |-> kept[i].collectionId,
               collectionSlug |-> kept[i].collectionSlug,
               fieldData |-> kept[i].fieldData]]

\* --------------------------------------------------- the store after a sync

RECURSIVE AllItemsFrom(_, _)
\* allItems of the sync handler after its loop: the entries of the
\* collections k, k + 1, ... of the site f.
AllItemsFrom(f, k) ==
  IF k > Len(Fixtures[f].cols) THEN <<>>
  ELSE LET items == FetchAll(f, Fixtures[f].cols[k].col.id)
       IN  [j \in DOMAIN items |-> [collection |-> k, item |-> items[j]]]
             \o AllItemsFrom(f, k + 1)

RECURSIVE Batches(_, _, _)
\* The loop of d1.batch calls from statement i on, none of them failing.
Batches(db, statements, i) ==
  IF i >= Len(statements) THEN db
  ELSE Batches(D1Batch(db, Slice(statements, i, i + BATCH_CHUNK_SIZE)).db,
               statements, i + BATCH_CHUNK_SIZE)

\* The tables after a sync of the site f that answered 200.
SyncedD1(f) ==
  Batches(EmptyD1, Statements(UpstreamCollections(f), AllItemsFrom(f, 1), 1), 0)

\* ------------------------------------------------------- search requests

\* The sites the search behaviours run on: two collections with three
\* items; 153 and 3 items; three collections two of which answer to the
\* name "bl" and one to "all"; no collection.
SearchSites == {1, 6, 7, 8}

\* Values of the parameter q: absent, empty, and texts.
Queries ==
  { NoParam, <<>>, <<"R", "e", "d">>, <<"r", "e">>, <<"_">>, <<"%">>, <<" ">>,
    <<"d", " ", "b">>, <<"z", "z">> }

\* Values of the parameter collections.
CollectionParams ==
  { NoParam,
    <<"a", "l", "l">>, <<"A", "L", "L">>, <<"A", "l", "l">>,
    <<" ", "a", "l", "l">>,
    <<"b", "l">>, <<" ", "B", "L", " ">>, <<"s", "h">>, <<"z", "z">>,
    <<"z", "z", ",", "b", "l">>, <<"b", "l", ",", "s", "h">>,
    <<"b", "l", ",", "b", "l", "s">> }

\* A request that has arrived and is not answered yet.
Request(op, q, cp) == Answer(op, q, cp, 0, FALSE, <<>>, <<>>)

Pending(op) == search.op = op /\ search.status = 0

\* A search request arrives at one of the three search endpoints.
SearchReceive ==
  /\ search = NoSearch
  /\ \E op \in {"like", "fts", "direct"}, q \in Queries, cp \in CollectionParams :
       search' = Request(op, q, cp)
  /\ UNCHANGED <<page, edge, backend, cms, published, clock, d1, kv, run, started, storeErrors>>

\* A request arrives at one of the two data endpoints.
DataReceive ==
  /\ search = NoSearch
  /\ \E op \in {"data", "sqldata"}, cp \in CollectionParams :
       search' = Request(op, NoParam, cp)
  /\ UNCHANGED <<page, edge, backend, cms, published, clock, d1, kv, run, started, storeErrors>>

LikeSearchRespond ==
  /\ Pending("like")
  /\ \E bound \in BOOLEAN :
       search' = LikeSearch(d1, bound, search.q, search.collections)
  /\ UNCHANGED <<page, edge, backend, cms, published, clock, d1, kv, run, started, storeErrors>>

FtsSearchRespond ==
  /\ Pending("fts")
  /\ \E bound \in BOOLEAN :
       search' = FtsSearch(d1, bound, search.q, search.collections)
  /\ UNCHANGED <<page, edge, backend, cms, published, clock, d1, kv, run, started, storeErrors>>

DirectSearchRespond ==
  /\ Pending("direct")
  /\ \E token \in Tokens, siteId \in SiteIds,
        siteStatus \in {200} \cup ErrorStatuses, failed \in 0..2 :
       search' = DirectSearch(cms, [token |-> token, siteId |-> siteId],
                              siteStatus, failed, search.q, search.collections)
  /\ UNCHANGED <<page, edge, backend, cms, published, clock, d1, kv, run, started, storeErrors>>

DrizzleDataRespond ==
  /\ Pending("data")
  /\ \E bound \in BOOLEAN :
       search' = DrizzleData(d1, bound, search.collections)
  /\ UNCHANGED <<page, edge, backend, cms, published, clock, d1, kv, run, started, storeErrors>>

\* cache.put(cacheKey, response.clone()): a full cache drops what it holds.
EdgePut(cache, url, response) ==
  IF url \in DOMAIN cache \/ Cardinality(DOMAIN cache) < MaxEdgeEntries
  THEN [u \in DOMAIN cache \cup {url} |-> IF u = url THEN response ELSE cache[u]]
  ELSE [u \in {url} |-> response]

\* A handler that puts whatever response it returns into the cache.
SqlDataRespondCachingAll ==
  /\ Pending("sqldata")
  /\ LET url == search.collections
     IN  IF url \in DOMAIN edge
         THEN search' = edge[url] /\ edge' = edge
         ELSE \E bound \in BOOLEAN, outcome \in {"ok", "throws"} :
                LET response ==
                      IF bound /\ outcome = "throws"
                      THEN Failure("sqldata", NoParam, url, 500, "Failed to fetch data")
                      ELSE SqlData(d1, bound, url)
                IN  /\ search' = response
                    /\ edge' = EdgePut(edge, url, response)
  /\ UNCHANGED <<page, backend, cms, published, clock, d1, kv, run, started, storeErrors>>

\* GET /api/data of src/app/api/data/route.ts: the cached response of the
\* URL if there is one; else 500 when env.DB is missing; else the response
\* built from the tables, which is put into the cache, or, when the query
\* or cache.put throws, the 500 of the catch block with nothing put.
SqlDataRespond ==
  /\ Pending("sqldata")
  /\ LET url == search.collections
     IN  IF url \in DOMAIN edge
         THEN search' = edge[url] /\ edge' = edge
         ELSE \E bound \in BOOLEAN, outcome \in {"ok", "throws"} :
                LET response == SqlData(d1, bound, url)
                IN  IF ~bound
                    THEN search' = response /\ edge' = edge
                    ELSE IF outcome = "throws"
                    THEN /\ search' = Failure("sqldata", NoParam, url, 500,
                                              "Failed to fetch data")
                         /\ edge' = edge
                    ELSE /\ search' = response
                         /\ edge' = EdgePut(edge, url, response)
  /\ UNCHANGED <<page, backend, cms, published, clock, d1, kv, run, started, storeErrors>>

\* The page that loaded the items from a data endpoint runs searchItems on
\* them.
ClientSearch ==
  /\ search.op \in {"data", "sqldata"} /\ search.status = 200
  /\ \E q \in Queries \ {NoParam} :
       search' = Answer("client", q, search.collections, 0, search.all,
                        search.resolved, searchItemsClient(search.results, q))
  /\ UNCHANGED <<page, edge, backend, cms, published, clock, d1, kv, run, started, storeErrors>>

\* The response has been delivered.
SearchDone ==
  /\ search.op = "client" \/ search.status # 0
  /\ search' = NoSearch
  /\ UNCHANGED <<page, edge, backend, cms, published, clock, d1, kv, run, started, storeErrors>>

\* The cached responses expire (max-age) or are evicted.
EdgeExpire ==
  /\ search = NoSearch /\ edge # NoEdge
  /\ edge' = NoEdge
  /\ UNCHANGED <<search, page, backend, cms, published, clock, d1, kv, run, started, storeErrors>>

\* Search and data requests on a store that a sync of the site has filled.
InitSearch ==
  /\ backend = "d1"
  /\ cms \in SearchSites
  /\ published = 0
  /\ clock = 1
  /\ d1 = SyncedD1(cms)
  /\ kv = EmptyKV
  /\ run = [r \in Runs |-> IdleRun]
  /\ started = 0
  /\ storeErrors = 0
  /\ search = NoSearch
  /\ page = NoPage
  /\ edge = NoEdge

NextSearch ==
  \/ SearchReceive
  \/ DataReceive
  \/ LikeSearchRespond
  \/ FtsSearchRespond
  \/ DirectSearchRespond
  \/ DrizzleDataRespond
  \/ SqlDataRespond
  \/ ClientSearch
  \/ SearchDone
  \/ EdgeExpire

SpecSearch == InitSearch /\ [][NextSearch]_vars

\* ------------------------------------------------------- claims on search

\* The ids of a list of results or rows.
Ids(list) == {list[i].id : i \in DOMAIN list}

\* A search endpoint has answered 200 with a list.
Searched(op) == search.op = op /\ search.status = 200

\* The row lies in the collections the answered request was restricted to.
InScope(row) == search.all \/ Includes(search.resolved, row.collection_slug)

\* Some string field of the upstream item contains the text.
FieldContains(item, text) ==
  \E i \in DOMAIN item.fieldData :
    /\ item.fieldData[i].t = "string"
    /\ Contains(toLowerCase(item.fieldData[i].v), text)

\* The upstream items of the site whose collection the answered request
\* named and one of whose string fields contains the text.
UpstreamHits(text) ==
  UNION { {item.id : item \in
             {UpstreamItems(cms, k)[i] : i \in DOMAIN UpstreamItems(cms, k)}
               \cap {it \in {UpstreamItems(cms, k)[i] : i \in DOMAIN UpstreamItems(cms, k)} :
                       FieldContains(it, text)}}
          : k \in {j \in DOMAIN Fixtures[cms].cols :
                     search.all \/ Includes(search.resolved, Fixtures[cms].cols[j].col.slug)} }

\* C11: in the substring mode (the LIKE search of the server and searchItems
\* of the client) an item is returned if and only if its searchText contains
\* the lowercased query as a contiguous substring, total is the number of
\* items returned, and on a synced store the items returned are exactly the
\* upstream items one of whose lowercased string fields contains the query.
C11_SubstringSearch ==
  (Searched("like") \/ search.op = "client") =>
    LET lowerQuery == toLowerCase(search.q)
        rows == {d1.items[i] : i \in DOMAIN d1.items}
    IN  /\ Ids(search.results) =
             {row.id : row \in {r \in rows : InScope(r) /\ Contains(r.search_text, lowerQuery)}}
        /\ search.total = Cardinality(Ids(search.results))
        /\ Ids(search.results) = UpstreamHits(lowerQuery)

\* The ids of the collections the requested string resolves to, each token
\* naming the first collection that answers to it.
ResolvedIds(cp) ==
  LET ids == resolveCollections(CollectionsParam(cp), UpstreamCollections(cms))
  IN  {ids[i] : i \in DOMAIN ids}

\* The ids of the collections one of whose three names a token of the
\* requested string equals, ignoring case.
NamedIds(cp) ==
  {c.id : c \in {d1.collections[i] : i \in DOMAIN d1.collections}
            \cap {row \in {d1.collections[i] : i \in DOMAIN d1.collections} :
                    Selected(row, RequestedNames(CollectionsParam(cp)))}}

SearchOps == {"like", "fts", "direct"}

\* C12: a search (upstream-direct, LIKE or FTS) restricted to a collections
\* filter never returns an item of a collection the filter does not resolve
\* to.
C12_OnlyResolvedCollections ==
  (search.op \in SearchOps /\ search.status = 200) =>
    \A i \in DOMAIN search.results :
      search.results[i].collectionId \in ResolvedIds(search.collections)

\* The rows of items_fts that match the query of the answered request.
FtsHits ==
  LET rows == {d1.items_fts[i] : i \in DOMAIN d1.items_fts}
  IN  rows \cap {row \in rows : FtsMatch(row, formatFtsQuery(search.q))}

\* C13: the FTS search never returns more than 100 rows, and when at most
\* 100 items both match and belong to the collections of the filter, all of
\* them are returned, however many items of other collections match: the
\* restriction is applied with the match, before the cap.
C13_FilterBeforeCap ==
  Searched("fts") =>
    LET wanted == {row.id : row \in FtsHits \cap {r \in FtsHits : InScope(r)}}
    IN  /\ Len(search.results) <= FTS_LIMIT
        /\ Cardinality(wanted) <= FTS_LIMIT => Ids(search.results) = wanted

\* An FTS search restricted to a collection has returned items while more
\* than 100 items of other collections match the query.
C13_Witness ==
  /\ Searched("fts") /\ ~search.all
  /\ search.total > 0
  /\ Cardinality({row.id : row \in FtsHits \cap {r \in FtsHits : ~InScope(r)}}) > FTS_LIMIT

\* The word "all" in the casings the requests use.
AllSpellings == {<<"a", "l", "l">>, <<"A", "L", "L">>, <<"A", "l", "l">>}

\* C14: when the requested string is "all" in any letter casing,
\* resolveCollections returns the ids of all known collections, whatever
\* the collections are called, and the LIKE search ranges over the items of
\* all collections.
C14_AllInAnyCasing ==
  search.collections \in AllSpellings =>
    /\ (search.op = "direct" /\ search.status = 200) =>
         search.resolved =
           [k \in DOMAIN UpstreamCollections(cms) |-> UpstreamCollections(cms)[k].id]
    /\ Searched("like") =>
         LET rows == {d1.items[i] : i \in DOMAIN d1.items}
         IN  Ids(search.results) =
               {row.id : row \in rows \cap {r \in rows :
                                             Like(LowerQuery(search.q), r.search_text)}}

\* The upstream-direct search has resolved "ALL" on the site that has a
\* collection called "all" beside two others.
C14_Witness ==
  /\ search.op = "direct" /\ search.status = 200
  /\ search.collections = <<"A", "L", "L">>
  /\ cms = 8
  /\ Len(search.resolved) = 3

\* The ids of the collections of the store.
StoredIds == {d1.collections[i].id : i \in DOMAIN d1.collections}

\* The ids of the rows of collections with one of the slugs.
IdsOfSlugs(slugs) ==
  {d1.collections[i].id :
     i \in {j \in DOMAIN d1.collections : Includes(slugs, d1.collections[j].slug)}}

\* The collections the endpoint `op` selects for the requested string.
ResolutionOf(op, cp) ==
  IF op = "direct" THEN ResolvedIds(cp)
  ELSE IF IsAll(CollectionsParam(cp)) THEN StoredIds
  ELSE IdsOfSlugs(MatchingSlugs(d1.collections, RequestedNames(CollectionsParam(cp))))

\* The collections the answered request was resolved to.
RecordedIds ==
  IF search.all
  THEN (IF search.op = "direct" THEN {search.resolved[i] : i \in DOMAIN search.resolved}
        ELSE StoredIds)
  ELSE IF search.op = "direct" THEN {search.resolved[i] : i \in DOMAIN search.resolved}
  ELSE IdsOfSlugs(search.resolved)

\* Two requested strings differ in letter case and surrounding whitespace
\* only.
SameButCase(a, b) == toLowerCase(Trim(a)) = toLowerCase(Trim(b))

Resolved == search.op \in SearchOps \cup {"data", "sqldata"} /\ search.status = 200

\* C15 as stated: any two requested strings that differ only in letter case
\* and surrounding whitespace resolve to the same collections.
C15_SameButCaseResolveAlike ==
  Resolved =>
    \A other \in CollectionParams \ {NoParam} :
      (search.collections # NoParam /\ SameButCase(search.collections, other)) =>
        ResolutionOf(search.op, other) = RecordedIds

\* The wildcard, with or without whitespace around it.
IsWildcard(cp) == toLowerCase(Trim(CollectionsParam(cp))) = <<"a", "l", "l">>

\* C15 (amended): two requested strings other than the wildcard "all" that
\* differ only in letter case and surrounding whitespace resolve to the
\* same collections, every collection selected has a slug, displayName or
\* singularName that equals a token ignoring case, and a token that equals
\* such a name selects a collection.
C15_TokensIgnoreCase ==
  (Resolved /\ ~IsWildcard(search.collections)) =>
    /\ \A other \in CollectionParams \ {NoParam} :
         SameButCase(search.collections, other) =>
           ResolutionOf(search.op, other) = RecordedIds
    /\ RecordedIds \subseteq NamedIds(search.collections)
    /\ NamedIds(search.collections) # {} => RecordedIds # {}

\* A request with the filter " BL " has been resolved to a collection.
C15_Witness ==
  /\ Resolved
  /\ search.collections = <<" ", "B", "L", " ">>
  /\ RecordedIds # {}

\* A request has been answered by an endpoint.
SearchAnswered ==
  search.op \in SearchOps \cup {"data", "sqldata"} /\ search.status # 0

\* The errors an endpoint answers with before it resolves the filter, or
\* when the query that resolves it throws.
EarlyErrors ==
  { "Query parameter 'q' is required",
    "Webflow API token not configured", "Webflow site ID not configured",
    "Failed to fetch site collections", "No collections found for this site",
    "Database not configured", "Failed to search: D1 database not configured",
    "Failed to fetch data: D1 database not configured",
    "Failed to fetch data" }

\* The requested string without the tokens that name no collection.
MatchedOnly(cp) ==
  join(SelectSeq(RequestedNames(CollectionsParam(cp)),
                 LAMBDA name : \E i \in DOMAIN d1.collections :
                                 Selected(d1.collections[i], <<name>>)),
       <<",">>)

\* C16: a token that matches no collection is dropped without an error and
\* without affecting the other tokens; when no token matches, the resolved
\* set is empty and the answer is 404 in the upstream-direct search and 200
\* with an empty list and total 0 in the store-backed endpoints, never 500.
C16_UnmatchedTokensDropped ==
  (/\ SearchAnswered
   /\ search.error \notin EarlyErrors
   /\ ~IsAll(CollectionsParam(search.collections))) =>
    IF NamedIds(search.collections) = {}
    THEN /\ RecordedIds = {}
         /\ IF search.op = "direct"
            THEN search.status = 404 /\ search.error = "Collection not found"
            ELSE search.status = 200 /\ search.results = <<>> /\ search.total = 0
    ELSE /\ search.status = 200 \/ search.error = "Failed to search collections"
         /\ ~IsWildcard(search.collections) =>
              RecordedIds = ResolutionOf(search.op, MatchedOnly(search.collections))

\* The upstream-direct search has answered 404 to a filter none of whose
\* tokens names a collection of the site.
C16_Witness ==
  /\ search.op = "direct" /\ search.status = 404
  /\ search.collections = <<"z", "z">>
  /\ Len(d1.collections) > 0

\* C17: for each requested token at most one collection is selected, the
\* first one in the order of the collection list that matches it, in every
\* variant that resolves a collections filter.
C17_FirstMatchOnly ==
  (Resolved /\ ~search.all) =>
    /\ Cardinality(RecordedIds) <= Len(RequestedNames(CollectionsParam(search.collections)))
    /\ RecordedIds = ResolvedIds(search.collections)
    /\ \A i \in DOMAIN search.results :
         search.results[i].collectionId \in RecordedIds

\* ============================================================ client page

\* The promise of the async function of loadData: pending at its first or
\* second await, or resolved with a list.
Awaiting(stage, fetched) ==
  [state |-> "pending", stage |-> stage, outcome |-> "none", value |-> <<>>,
   fetched |-> fetched]

Settled(outcome, value, fetched) ==
  [state |-> "resolved", stage |-> "done", outcome |-> outcome, value |-> value,
   fetched |-> fetched]

\* Item lists a data endpoint answers with: none, and the items of a site.
LoadedLists ==
  { <<>>, [i \in DOMAIN SyncedD1(1).items |-> DataItem(SyncedD1(1).items[i])] }

\* The test of loadingPromise left out.
NeverJoins(pg) == FALSE

\* if (loadingPromise)
Joins(pg) == pg.loadingPromise # 0

\* The catch block of the load p: loadingPromise = null; return [].
Caught(pg, p) ==
  [pg EXCEPT !.loadingPromise = 0,
             !.promises[p] = Settled("failed", <<>>, @.fetched)]

\* A load that ends by forgetting the request and keeps no list.
LoadedAndForgotten(pg, p, items) ==
  [pg EXCEPT !.loadingPromise = 0,
             !.promises[p] = Settled("ok", items, @.fetched)]

\* cachedData = data.items; return cachedData.
Loaded(pg, p, items) ==
  [pg EXCEPT !.cachedData = [set |-> TRUE, items |-> items],
             !.promises[p] = Settled("ok", items, @.fetched)]

\* What the page had when a call was made: the load in flight (0: none)
\* and the list of the load that had succeeded.
InFlightLoad(pg) ==
  IF \E p \in DOMAIN pg.promises : pg.promises[p].state = "pending"
  THEN CHOOSE p \in DOMAIN pg.promises : pg.promises[p].state = "pending"
  ELSE 0

SucceededLoad(pg) ==
  IF \E p \in DOMAIN pg.promises : pg.promises[p].outcome = "ok"
  THEN [set |-> TRUE,
        items |-> pg.promises[CHOOSE p \in DOMAIN pg.promises :
                                pg.promises[p].outcome = "ok"].value]
  ELSE [set |-> FALSE, items |-> <<>>]

Call(pg, kind, from, value, fetched) ==
  [kind |-> kind, from |-> from, value |-> value, fetched |-> fetched,
   inflight |-> InFlightLoad(pg), loaded |-> SucceededLoad(pg)]

\* loadData(config), up to its return: the cached list, the promise in
\* flight, or a new load that runs to its first await (or, when the URL
\* cannot be built, through its catch block) before loadingPromise is
\* assigned.
loadData(pg) ==
  LET p == Len(pg.promises) + 1
      begun == [pg EXCEPT !.promises = Append(@, Awaiting("fetch", FALSE))]
      sent == [pg EXCEPT !.promises = Append(@, Awaiting("fetch", TRUE)),
                         !.fetches = @ + 1]
  IN  IF pg.cachedData.set
      THEN [pg EXCEPT !.calls =
              Append(@, Call(pg, "cached", 0, pg.cachedData.items, FALSE))]
      ELSE IF Joins(pg)
      THEN [pg EXCEPT !.calls =
              Append(@, Call(pg, "joined", pg.loadingPromise, <<>>, FALSE))]
      ELSE IF ~pg.validUrl
      THEN [Caught(begun, p) EXCEPT
              !.loadingPromise = p,
              !.calls = Append(@, Call(pg, "started", p, <<>>, FALSE))]
      ELSE [sent EXCEPT
              !.loadingPromise = p,
              !.calls = Append(@, Call(pg, "started", p, <<>>, TRUE))]

\* A response handled only when no later search has begun.
EndsIfLatest(pg, s, end, results) ==
  IF s = Len(pg.searches) \/ pg.searches[s].stage \notin {"fetch", "json"}
  THEN [pg EXCEPT !.searches[s].stage = "done", !.searches[s].end = end,
                  !.searches[s].results = results,
                  !.container = results, !.renders = Append(@, s)]
  ELSE [pg EXCEPT !.searches[s].stage = "done", !.searches[s].end = end,
                  !.searches[s].results = results,
                  !.renders = Append(@, s)]

\* The end of the search s: clearResults() leaves the template alone in the
\* container, renderResults(results) clears it and appends one clone of the
\* template for each result.
Ends(pg, s, end, results) ==
  [pg EXCEPT !.searches[s].stage = "done", !.searches[s].end = end,
             !.searches[s].results = results,
             !.container = results, !.renders = Append(@, s)]

\* The searches whose load has settled continue latest first.
RECURSIVE ResumeLatestFirst(_)
ResumeLatestFirst(pg) ==
  LET Ready(s) ==
        /\ pg.searches[s].stage = "load"
        /\ pg.searches[s].from # 0 => pg.promises[pg.searches[s].from].state = "resolved"
      ready == {s \in DOMAIN pg.searches : Ready(s)}
      latest == CHOOSE s \in ready : \A t \in ready : s >= t
      items == IF pg.searches[latest].from = 0 THEN pg.cachedData.items
               ELSE pg.promises[pg.searches[latest].from].value
      failed == pg.searches[latest].from # 0
                /\ pg.promises[pg.searches[latest].from].outcome = "failed"
  IN  IF ready = {} THEN pg
      ELSE ResumeLatestFirst(
             Ends(pg, latest, IF failed THEN "error" ELSE "rendered",
                  searchItemsClient(items, pg.searches[latest].query)))

\* performSearch of client-search after `await loadData(config)`: the
\* searches whose load has settled continue in the order in which they
\* began to wait, each with searchItems and renderResults, before the next
\* event is handled.
RECURSIVE Resume(_)
Resume(pg) ==
  LET Ready(s) ==
        /\ pg.searches[s].stage = "load"
        /\ pg.searches[s].from # 0 => pg.promises[pg.searches[s].from].state = "resolved"
      ready == {s \in DOMAIN pg.searches : Ready(s)}
      first == CHOOSE s \in ready : \A t \in ready : s <= t
      items == IF pg.searches[first].from = 0 THEN pg.cachedData.items
               ELSE pg.promises[pg.searches[first].from].value
      failed == pg.searches[first].from # 0
                /\ pg.promises[pg.searches[first].from].outcome = "failed"
  IN  IF ready = {} THEN pg
      ELSE Resume(Ends(pg, first, IF failed THEN "error" ELSE "rendered",
                       searchItemsClient(items, pg.searches[first].query)))

\* A call of loadData that is not part of a search.
LoadData ==
  /\ Len(page.calls) < MaxLoadCalls
  /\ page' = loadData(page)
  /\ UNCHANGED <<search, edge, backend, cms, published, clock, d1, kv, run, started, storeErrors>>

\* await fetch(url) settles: rejected, answered with a status that is not
\* ok, or answered ok.
FetchSettles ==
  /\ \E p \in DOMAIN page.promises :
       /\ page.promises[p].state = "pending" /\ page.promises[p].stage = "fetch"
       /\ \E outcome \in {"rejected", "not ok", "ok"} :
            page' = IF outcome = "ok"
                    THEN [page EXCEPT !.promises[p] = Awaiting("json", TRUE)]
                    ELSE Resume(Caught(page, p))
  /\ UNCHANGED <<search, edge, backend, cms, published, clock, d1, kv, run, started, storeErrors>>

\* await response.json() settles: the body cannot be read, or it is read
\* and holds data.items.
BodyRead ==
  /\ \E p \in DOMAIN page.promises :
       /\ page.promises[p].state = "pending" /\ page.promises[p].stage = "json"
       /\ \/ page' = Resume(Caught(page, p))
          \/ \E items \in LoadedLists : page' = Resume(Loaded(page, p, items))
  /\ UNCHANGED <<search, edge, backend, cms, published, clock, d1, kv, run, started, storeErrors>>

\* A page whose configuration gives a URL that can be built, or not.
InitClient ==
  /\ backend = "d1"
  /\ cms = 1
  /\ published = 0
  /\ clock = 0
  /\ d1 = EmptyD1
  /\ kv = EmptyKV
  /\ run = [r \in Runs |-> IdleRun]
  /\ started = 0
  /\ storeErrors = 0
  /\ search = NoSearch
  /\ \E validUrl \in BOOLEAN : page = [NoPage EXCEPT !.validUrl = validUrl]
  /\ edge = NoEdge

NextClient ==
  \/ LoadData
  \/ FetchSettles
  \/ BodyRead

SpecClient == InitClient /\ [][NextClient]_vars

\* What a call of loadData has returned: its promise is resolved with the
\* value, or still pending.
Returned(c) == c.from = 0 \/ page.promises[c.from].state = "resolved"

ValueOf(c) == IF c.from = 0 THEN c.value ELSE page.promises[c.from].value


Calls == {page.calls[i] : i \in DOMAIN page.calls}

PendingLoads == {p \in DOMAIN page.promises : page.promises[p].state = "pending"}

\* C18: the loads are single-flight. At most one load is in flight; a call
\* of loadData made while a load is in flight issues no fetch and receives
\* the result of that load; the fetches issued are those of the loads
\* started, one each.
C18_SingleFlight ==
  /\ Cardinality(PendingLoads) <= 1
  /\ page.fetches = Cardinality({p \in DOMAIN page.promises : page.promises[p].fetched})
  /\ \A c \in Calls :
       c.inflight # 0 =>
         /\ ~c.fetched
         /\ c.from = c.inflight
         /\ Returned(c) => ValueOf(c) = page.promises[c.inflight].value

\* Three calls were made before the first load completed; the load has
\* succeeded with one fetch, and all of them have its list.
C18_Witness ==
  /\ Len(page.calls) >= 3
  /\ \A i \in 1..3 : page.calls[i].from = 1
  /\ page.calls[2].inflight = 1 /\ page.calls[3].inflight = 1
  /\ page.promises[1].outcome = "ok" /\ page.promises[1].value # <<>>
  /\ page.fetches = 1

\* C19: a call of loadData made after a load has succeeded returns the list
\* of that load and issues no fetch, whatever the list is.
C19_CachedAfterSuccess ==
  \A c \in Calls :
    c.loaded.set =>
      /\ ~c.fetched
      /\ Returned(c)
      /\ ValueOf(c) = c.loaded.items

\* Two calls were made after a load that brought the empty list.
C19_Witness ==
  /\ Len(page.calls) >= 3
  /\ page.calls[2].loaded = [set |-> TRUE, items |-> <<>>]
  /\ page.calls[3].loaded = [set |-> TRUE, items |-> <<>>]
  /\ page.fetches = 1

\* C20: however a load fails, the failing call returns the empty list, the
\* cache is left empty with no request recorded as in flight, and the next
\* call of loadData starts a new load.
C20_FailureResets ==
  /\ \A p \in DOMAIN page.promises :
       page.promises[p].outcome = "failed" => page.promises[p].value = <<>>
  /\ (/\ page.promises # <<>>
      /\ \A p \in DOMAIN page.promises : page.promises[p].outcome = "failed") =>
       ~page.cachedData.set /\ page.loadingPromise = 0
  /\ \A c \in Calls :
       (c.inflight = 0 /\ ~c.loaded.set) => c.kind = "started"

\* ========================================================== search widgets

\* config.debounceMs, in ticks of the page's time.
DebounceTicks == 2

\* Input events, form submits and ticks of time of one page.
MaxInputs == 3
MaxSubmits == 1
MaxTime == 4

\* Texts typed into the search input.
WidgetQueries == { <<"R", "e", "d">>, <<"S">>, <<" ">> }

\* A debounce that leaves a timer that is set alone.
KeepsTimer(pg, args) ==
  IF pg.timeoutId.set THEN pg
  ELSE [pg EXCEPT !.timeoutId =
          [set |-> TRUE, at |-> pg.now + DebounceTicks, args |-> args]]

\* The function debounce returns: clearTimeout(timeoutId); timeoutId =
\* setTimeout(() => fn.apply(this, args), ms).
debounce(pg, args) ==
  [pg EXCEPT !.timeoutId =
     [set |-> TRUE, at |-> pg.now + DebounceTicks, args |-> args]]

\* A catch block that logs the error and leaves the container as it is.
CatchAndKeep(pg, s) ==
  [pg EXCEPT !.searches[s].stage = "done", !.searches[s].end = "error",
             !.renders = Append(@, s)]

\* The catch block of performSearch: console.error; clearResults().
CatchError(pg, s) == Ends(pg, s, "error", <<>>)

\* performSearch(query), up to its first await or its end: a blank query
\* clears the container; the server-search widget builds the URL and sends
\* the request; client-search calls loadData and goes on at once when the
\* list is cached or the promise it gets is settled.
performSearch(pg, query, via) ==
  LET s == Len(pg.searches) + 1
      Begun(at, from, stage) ==
        [at EXCEPT !.searches =
           Append(@, [query |-> query, via |-> via, at |-> pg.now,
                      from |-> from, stage |-> stage, end |-> "none",
                      results |-> <<>>])]
      loading == loadData(pg)
  IN  IF Trim(query) = <<>> THEN Ends(Begun(pg, 0, "blank"), s, "blank", <<>>)
      ELSE IF pg.widget = "client"
      THEN Resume(Begun(loading, loading.calls[Len(loading.calls)].from, "load"))
      ELSE IF ~pg.validUrl THEN CatchError(Begun(pg, 0, "url"), s)
      ELSE Begun(pg, 0, "fetch")

\* The timer of debounce has run out and its callback is the next task.
Due(pg) == pg.timeoutId.set /\ pg.now >= pg.timeoutId.at

\* An input event: debouncedSearch(target.value).
InputEvent ==
  /\ Len(page.inputs) < MaxInputs /\ ~Due(page)
  /\ \E value \in WidgetQueries :
       page' = [debounce(page, value) EXCEPT
                  !.input = value,
                  !.inputs = Append(@, [at |-> page.now, value |-> value])]
  /\ UNCHANGED <<search, edge, backend, cms, published, clock, d1, kv, run, started, storeErrors>>

\* The callback of the timer: performSearch with the arguments kept.
TimerFires ==
  /\ Due(page)
  /\ page' = performSearch([page EXCEPT !.timeoutId.set = FALSE],
                           page.timeoutId.args, "input")
  /\ UNCHANGED <<search, edge, backend, cms, published, clock, d1, kv, run, started, storeErrors>>

\* The submit event of the form: performSearch(searchInput.value).
FormSubmit ==
  /\ ~Due(page)
  /\ Cardinality({s \in DOMAIN page.searches : page.searches[s].via = "submit"})
       < MaxSubmits
  /\ page' = performSearch(page, page.input, "submit")
  /\ UNCHANGED <<search, edge, backend, cms, published, clock, d1, kv, run, started, storeErrors>>

\* Time passes; a timer that has run out fires before it passes further.
Tick ==
  /\ page.now < MaxTime /\ ~Due(page)
  /\ page' = [page EXCEPT !.now = @ + 1]
  /\ UNCHANGED <<search, edge, backend, cms, published, clock, d1, kv, run, started, storeErrors>>

\* await fetch(url) of the server-search widget settles: rejected, or
\* answered by GET /api/search, with a status that is ok or not.
ResponseArrives ==
  /\ \E s \in DOMAIN page.searches :
       /\ page.searches[s].stage = "fetch"
       /\ \/ page' = CatchError(page, s)
          \/ \E bound \in BOOLEAN :
               page' =
                 IF LikeSearch(SyncedD1(1), bound, page.searches[s].query,
                               <<"a", "l", "l">>).status = 200
                 THEN [page EXCEPT !.searches[s].stage = "json"]
                 ELSE CatchError(page, s)
  /\ UNCHANGED <<search, edge, backend, cms, published, clock, d1, kv, run, started, storeErrors>>

\* await response.json() of the server-search widget settles: the body
\* cannot be read, or renderResults(data.results).
ResponseRead ==
  /\ \E s \in DOMAIN page.searches :
       /\ page.searches[s].stage = "json"
       /\ \/ page' = CatchError(page, s)
          \/ page' = Ends(page, s, "rendered",
                          LikeSearch(SyncedD1(1), TRUE, page.searches[s].query,
                                     <<"a", "l", "l">>).results)
  /\ UNCHANGED <<search, edge, backend, cms, published, clock, d1, kv, run, started, storeErrors>>

\* A page after initSearch of one of the two widgets; client-search has
\* called loadData once to preload the list.
InitWidget ==
  /\ backend = "d1"
  /\ cms = 1
  /\ published = 0
  /\ clock = 0
  /\ d1 = EmptyD1
  /\ kv = EmptyKV
  /\ run = [r \in Runs |-> IdleRun]
  /\ started = 0
  /\ storeErrors = 0
  /\ search = NoSearch
  /\ \E widget \in {"server", "client"}, validUrl \in BOOLEAN :
       page = IF widget = "client"
              THEN loadData([NoPage EXCEPT !.validUrl = validUrl])
              ELSE [NoPage EXCEPT !.validUrl = validUrl, !.widget = widget]
  /\ edge = NoEdge

NextWidget ==
  \/ InputEvent
  \/ TimerFires
  \/ FormSubmit
  \/ Tick
  \/ ResponseArrives
  \/ ResponseRead
  \/ FetchSettles
  \/ BodyRead

SpecWidget == InitWidget /\ [][NextWidget]_vars

\* ------------------------------------------------------ claims: widgets

\* The input events that end a burst whose timer has run out: the next
\* event came no sooner than the interval after it, or none came and no
\* timer is set.
BurstEnds ==
  {i \in DOMAIN page.inputs :
     IF i < Len(page.inputs)
     THEN page.inputs[i + 1].at - page.inputs[i].at >= DebounceTicks
     ELSE ~page.timeoutId.set}

\* The calls of performSearch made through the debounced function.
Debounced == SelectSeq(page.searches, LAMBDA call : call.via = "input")

\* C21: a burst of input events, each less than the debounce interval after
\* the one before, leads to exactly one call of the debounced search, made
\* once the interval has passed since the last event of the burst and with
\* the value of that event; while the timer is set it holds that value.
C21_DebounceCoalesces ==
  /\ Len(Debounced) = Cardinality(BurstEnds)
  /\ \A k \in DOMAIN Debounced :
       \E i \in BurstEnds :
         /\ Cardinality({j \in BurstEnds : j <= i}) = k
         /\ Debounced[k].query = page.inputs[i].value
         /\ Debounced[k].at >= page.inputs[i].at + DebounceTicks
         /\ i < Len(page.inputs) => Debounced[k].at <= page.inputs[i + 1].at
  /\ page.timeoutId.set =>
       /\ page.inputs # <<>>
       /\ page.timeoutId.args = page.inputs[Len(page.inputs)].value
       /\ page.timeoutId.at = page.inputs[Len(page.inputs)].at + DebounceTicks

\* A burst of three events with three values at three times was followed
\* by one search, for the last value.
C21_Witness ==
  /\ Len(page.inputs) = 3
  /\ page.inputs[1].at < page.inputs[2].at /\ page.inputs[2].at < page.inputs[3].at
  /\ page.inputs[3].at - page.inputs[2].at < DebounceTicks
  /\ page.inputs[2].at - page.inputs[1].at < DebounceTicks
  /\ page.inputs[1].value # page.inputs[3].value
  /\ page.inputs[2].value # page.inputs[3].value
  /\ ~page.timeoutId.set
  /\ Len(Debounced) = 1
  /\ Debounced[1].query = page.inputs[3].value

\* The search that ended last, and what GET /api/search answers to a query.
LastEnded == page.searches[page.renders[Len(page.renders)]]

ServerResults(q) == LikeSearch(SyncedD1(1), TRUE, q, <<"a", "l", "l">>).results

\* C22: the server-search widget renders every response when it arrives,
\* whichever search it belongs to: the container shows the results of the
\* query whose response arrived last, also when a search begun later has
\* been answered before it.
C22_LastArrivalShown ==
  (page.widget = "server" /\ page.renders # <<>>) =>
    page.container =
      IF LastEnded.end = "rendered" THEN ServerResults(LastEnded.query) ELSE <<>>

\* Search 1 was begun before search 2 and answered after it; the container
\* shows the results of search 1, which are not those of search 2.
C22_Witness ==
  /\ page.widget = "server"
  /\ page.renders = <<2, 1>>
  /\ page.searches[1].end = "rendered" /\ page.searches[2].end = "rendered"
  /\ page.searches[1].at < page.searches[2].at
  /\ page.container = ServerResults(page.searches[1].query)
  /\ page.container # <<>>
  /\ page.container # ServerResults(page.searches[2].query)

\* C23: when a search of either widget ends in an error (the URL cannot be
\* built, the request is rejected or answered with a status that is not
\* ok, the body cannot be read, the data load fails), the container holds
\* the template only, until another search ends.
C23_ErrorClears ==
  (page.renders # <<>> /\ LastEnded.end = "error") => page.container = <<>>

\* A search had rendered results; the next one has ended in an error after
\* its request was sent, and nothing is shown.
C23_Witness ==
  /\ page.renders = <<1, 2>>
  /\ page.searches[1].end = "rendered" /\ page.searches[1].results # <<>>
  /\ page.searches[2].end = "error" /\ page.searches[2].query # page.searches[1].query
  /\ page.validUrl
  /\ page.container = <<>>

\* ======================================================== buildSearchText

\* Properties of one fieldData.
MaxFields == 2

\* Field slugs, two of them array indices, and field values: strings (one
\* empty), a number, a boolean, null, an object and an array.
FieldKeys == {"name", "b", "1", "2"}

FieldValues ==
  { Str(<<"R", "e", "d">>), Str(<<"S">>), Str(<<>>), Num(<<"5">>),
    [t |-> "boolean", v |-> <<"t", "r", "u", "e">>], Null,
    [t |-> "object", v |-> <<"{", "}">>], [t |-> "object", v |-> <<"[", "]">>] }

\* The objects with up to MaxFields properties, as their entries in
\* insertion order.
FieldDatas ==
  { fieldData \in UNION { [1..n -> [k : FieldKeys, t : {"string", "number", "boolean", "object"},
                                     v : {e.v : e \in FieldValues}]] : n \in 0..MaxFields } :
      /\ \A i \in DOMAIN fieldData :
           [t |-> fieldData[i].t, v |-> fieldData[i].v] \in FieldValues
      /\ \A i, j \in DOMAIN fieldData : i # j => fieldData[i].k # fieldData[j].k }

\* An item arrives whose fieldData buildSearchText has not been called on.
InitText ==
  /\ backend = "d1"
  /\ cms = 1
  /\ published = 0
  /\ clock = 0
  /\ d1 = EmptyD1
  /\ kv = EmptyKV
  /\ run = [r \in Runs |-> IdleRun]
  /\ started = 0
  /\ storeErrors = 0
  /\ \E fieldData \in FieldDatas :
       search = [op |-> "text", fieldData |-> fieldData, texts |-> <<>>]
  /\ page = NoPage
  /\ edge = NoEdge

\* search_text of the item is computed: once by the sync, and again.
BuildSearchText ==
  /\ Len(search.texts) < 2
  /\ search' = [search EXCEPT !.texts = Append(@, buildSearchText(search.fieldData))]
  /\ UNCHANGED <<page, edge, backend, cms, published, clock, d1, kv, run, started, storeErrors>>

NextText == BuildSearchText

SpecText == InitText /\ [][NextText]_vars

\* The string values of the entries e, in the order of e, each followed by
\* the values after it with one space between.
RECURSIVE StringsInOrder(_)
StringsInOrder(e) ==
  IF e = <<>> THEN <<>>
  ELSE LET rest == StringsInOrder(Tail(e))
       IN  IF e[1].t = "string" THEN <<e[1].v>> \o rest ELSE rest

RECURSIVE SpaceJoined(_)
SpaceJoined(strs) ==
  IF strs = <<>> THEN <<>>
  ELSE IF Len(strs) = 1 THEN strs[1]
  ELSE strs[1] \o <<" ">> \o SpaceJoined(Tail(strs))

\* C24: buildSearchText returns the string values of fieldData in insertion
\* order, joined by one space and lowercased; values that are not strings
\* add nothing, and a second call returns the same text.
C24_StringsInInsertionOrder ==
  search.op = "text" =>
    \A i \in DOMAIN search.texts :
      search.texts[i] = toLowerCase(SpaceJoined(StringsInOrder(search.fieldData)))

\* ------------------------------------------------ claims: relational sync

\* The length of the statement list of a run of the relational sync, the
\* places in the list of the statements of the k-th chunk its loop passes
\* to d1.batch (k from 0), and those of the first k chunks together.
CountOf(rn) == StatementCount(rn.collections, rn.allItems)

ChunkOf(rn, k) ==
  Slice([n \in 1..CountOf(rn) |-> n], k * BATCH_CHUNK_SIZE, (k + 1) * BATCH_CHUNK_SIZE)

RECURSIVE Executed(_, _)
Executed(rn, k) ==
  IF k = 0 THEN <<>> ELSE Executed(rn, k - 1) \o ChunkOf(rn, k - 1)

\* C25: the relational sync passes its statement list to d1.batch in chunks
\* of 1 to 400 statements, one after the other in list order: after k
\* chunks the statements executed are the first 400 * k of the list (all of
\* it when it is shorter), each once, a run succeeds when the list is
\* exhausted, and the DELETE statements are the first three of the list.
C25_ChunksInOrder ==
  \A r \in Runs :
    LET rn == run[r]
    IN  (backend = "d1" /\ (rn.pc = "batch" \/ rn.nWrites > 0)) =>
          /\ rn.i = rn.nWrites * BATCH_CHUNK_SIZE
          /\ \A k \in 0..(rn.nWrites - 1) : Len(ChunkOf(rn, k)) \in 1..400
          /\ Executed(rn, rn.nWrites) = [n \in 1..Min(rn.i, CountOf(rn)) |-> n]
          /\ rn.pc = "batch" =>
               /\ rn.i < CountOf(rn)
               /\ Len(ChunkOf(rn, rn.nWrites)) \in 1..400
               /\ \A n \in 1..CountOf(rn) :
                    (StatementAt(rn.collections, rn.allItems, rn.syncedAt, n).op
                       = "DELETE") <=> n <= 3
          /\ (rn.pc = "done" /\ rn.status = 200) => rn.i >= CountOf(rn)

\* A sync of 406 statements has succeeded with two calls of d1.batch.
C25_Witness ==
  \E r \in Runs :
    /\ backend = "d1" /\ run[r].pc = "done" /\ run[r].status = 200
    /\ CountOf(run[r]) > 400
    /\ run[r].nWrites = 2

\* C26: in every state of the store between or after the chunks of a
\* relational sync, the rows of items and the rows of items_fts carry the
\* same item ids.
C26_ItemsAndIndexAgree ==
  {d1.items[n].id : n \in DOMAIN d1.items}
    = {d1.items_fts[m].id : m \in DOMAIN d1.items_fts}

\* The store holds the complete snapshot of run rn and its last_sync.
HoldsSnapshotOf(rn) ==
  /\ backend = "d1" =>
       /\ HoldsExactlyD1(rn)
       /\ [key |-> "last_sync", value |-> rn.syncedAt] \in d1.sync_meta
  /\ backend = "kv" => HoldsExactlyKV(rn)

\* C27: when two syncs whose fetches succeeded have run with their write
\* steps interleaved and no error was injected into the store, both have
\* answered 200 and the store holds the complete snapshot of one of them,
\* with its last_sync.
C27_OverlappingSyncsLeaveOneSnapshot ==
  (/\ \A r \in Runs : run[r].pc = "done" /\ FetchedAll(run[r])
   /\ \E r \in Runs : run[r].overlap
   /\ storeErrors = 0) =>
    /\ \A r \in Runs : run[r].status = 200
    /\ \E r \in Runs : HoldsSnapshotOf(run[r])

\* ----------------------------------------------- claims: resolved list

\* C28: the collection list the upstream-direct search resolves holds no
\* collection id twice, and no item is twice in its results.
C28_ResolvedOnce ==
  (search.op = "direct" /\ search.status = 200) =>
    /\ \A i, j \in DOMAIN search.resolved :
         search.resolved[i] = search.resolved[j] => i = j
    /\ \A i, j \in DOMAIN search.results :
         search.results[i].id = search.results[j].id => i = j

\* ------------------------------------------------ claims: client widget

\* The searches of the page with a query that is not blank, in the order
\* in which they ended, and the list loadData returned to the search s.
NonBlank(s) == Trim(page.searches[s].query) # <<>>

NonBlankEnded == SelectSeq(page.renders, NonBlank)

ListOf(s) ==
  IF page.searches[s].from = 0 THEN page.cachedData.items
  ELSE page.promises[page.searches[s].from].value

AllEnded ==
  /\ page.widget = "client" /\ page.searches # <<>>
  /\ \A s \in DOMAIN page.searches : page.searches[s].stage = "done"

\* C29 as stated: in client-search the searches with a query that is not
\* blank end in the order in which they began, and once all searches have
\* ended the container shows the results of the latest of them, over the
\* list loaded.
C29_LatestQueryShown ==
  (AllEnded /\ \E s \in DOMAIN page.searches : NonBlank(s)) =>
    LET latest == CHOOSE s \in DOMAIN page.searches :
                    NonBlank(s) /\ \A t \in DOMAIN page.searches : NonBlank(t) => t <= s
    IN  /\ \A i, j \in DOMAIN NonBlankEnded : i < j => NonBlankEnded[i] < NonBlankEnded[j]
        /\ page.container = searchItemsClient(ListOf(latest), page.searches[latest].query)

\* C29, amended: the searches with a query that is not blank end in the
\* order in which they began; a search with a blank query ends at once,
\* clearing the container. Once all have ended, the container is empty
\* when the search that ended last had a blank query; otherwise that
\* search is the latest one with a query that is not blank, and the
\* container shows its results over the list its load returned (the empty
\* list when the load failed).
C29_NonBlankInStartOrder ==
  page.widget = "client" =>
    /\ \A i, j \in DOMAIN NonBlankEnded : i < j => NonBlankEnded[i] < NonBlankEnded[j]
    /\ AllEnded =>
         LET last == page.renders[Len(page.renders)]
         IN  IF ~NonBlank(last) THEN page.container = <<>>
             ELSE /\ \A t \in DOMAIN page.searches : NonBlank(t) => t <= last
                  /\ page.container =
                       searchItemsClient(ListOf(last), page.searches[last].query)

\* Two searches with different queries waited for the same load; it has
\* brought a list, search 1 was rendered, then search 2, whose results the
\* container shows.
C29_Witness ==
  /\ page.widget = "client"
  /\ Len(page.searches) = 2 /\ page.renders = <<1, 2>>
  /\ page.searches[1].from = 1 /\ page.searches[2].from = 1
  /\ page.calls[2].inflight = 1 /\ page.calls[3].inflight = 1
  /\ page.searches[1].end = "rendered" /\ page.searches[2].end = "rendered"
  /\ page.searches[1].results # <<>>
  /\ page.container # <<>>
  /\ page.container # page.searches[1].results
  /\ page.container = searchItemsClient(ListOf(2), page.searches[2].query)

\* -------------------------------------------------- claims: edge cache

\* C30: the edge cache of /api/data holds responses with status 200 only,
\* each under the URL of its request; a request whose URL is in the cache
\* is answered with the cached response, whatever the state of the
\* database binding, and leaves the cache as it is; a response enters the
\* cache only in the step that answers the request for its URL with the
\* result of a successful read of the tables.
C30_CachesSuccessOnly ==
  [][/\ \A url \in DOMAIN edge' :
          /\ edge'[url].status = 200 /\ edge'[url].op = "sqldata"
          /\ edge'[url].collections = url
     /\ (Pending("sqldata") /\ search'.status # 0 /\ search.collections \in DOMAIN edge) =>
          search' = edge[search.collections] /\ edge' = edge
     /\ \A url \in DOMAIN edge' :
          (url \notin DOMAIN edge \/ edge'[url] # edge[url]) =>
            /\ Pending("sqldata") /\ search.collections = url
            /\ search' = edge'[url]
            /\ search' = SqlData(d1, TRUE, url)]_vars

\* The cache holds the response of one URL; the request for another URL
\* has been answered 500 and is not in the cache.
C30_Witness ==
  /\ search.op = "sqldata" /\ search.status = 500
  /\ search.collections \notin DOMAIN edge
  /\ \E url \in DOMAIN edge : edge[url].status = 200 /\ edge[url].results # <<>>

====
